---------------------------- MODULE Spec2Model ----------------------------
(***************************************************************************)
(* procclean: the interactive session (src/tui/app.rs, src/tui/screens.rs) *)
(* and the list command (src/cli/commands.rs) over the classification,     *)
(* filter, sort and kill functions of src/core.                            *)
(*                                                                         *)
(* Conventions.  An Option<T> is a sequence of length at most one: <<>> is *)
(* None and <<x>> is Some(x).  A Vec<T> is a sequence; Rust indices are    *)
(* 0-based, so row i of a Vec v is v[i + 1].  A String is a sequence of    *)
(* one-character strings; characters are ordered by their place in Ascii.  *)
(* f64 memory and cpu figures are whole numbers of MB and percent.         *)
(***************************************************************************)
EXTENDS Integers, Sequences, FiniteSets, TLC

VARIABLES
    processes,           \* App.processes: the last full snapshot
    filtered_processes,  \* App.filtered_processes: the displayed list
    selected,            \* App.selected: Vec<usize> of selected positions
    table_state,         \* App.table_state.selected(): the cursor, Option<usize>
    view,                \* App.view
    sort_key,            \* App.sort_key
    sort_reverse,        \* App.sort_reverse
    cwd_filter,          \* App.cwd_filter: Option<String>
    confirm_screen,      \* App.confirm_screen: Option<ConfirmKillScreen>
    should_quit,         \* App.should_quit
    refresh_due,         \* last_refresh.elapsed() > 5 s
    pc,                  \* position of App::run in its loop
    event,               \* the arm of handle_key the last step ran, "tick" for
                         \* an automatic refresh, "" otherwise
    sent,                \* the signals the last step sent, in order
    kill_results,        \* KillResult.success of each of those sends, in order
    cli,                 \* Cli.command: None for the session, else the command,
                         \* its arguments and what it has computed
    dropped              \* how many selected positions the last step's refresh removed

vars == <<processes, filtered_processes, selected, table_state, view, sort_key,
          sort_reverse, cwd_filter, confirm_screen, should_quit, refresh_due,
          pc, event, sent, kill_results, cli, dropped>>

(***************************************************************************)
(* Bounds                                                                  *)
(***************************************************************************)
\* How many entries of ProcTable the process table of the machine can hold.
NumProcs == 2

(***************************************************************************)
(* Strings                                                                 *)
(***************************************************************************)
\* The characters in use, in ASCII order.
Ascii ==
    <<"\n", " ", "!", "(", ")", "*", "-", "/", "1", ":", "=", "?",
      "B", "M", "T", "U", "X", "Y", "[", "]", "_",
      "a", "b", "c", "d", "e", "f", "g", "h", "i", "j", "k", "l", "m", "n",
      "o", "p", "q", "r", "s", "t", "u", "v", "w", "x", "y", "z">>

CharCode(c) == CHOOSE i \in 1..Len(Ascii) : Ascii[i] = c

\* Ordering::{Less, Equal, Greater} as -1, 0, 1.
CmpInt(a, b) == IF a < b THEN -1 ELSE IF a > b THEN 1 ELSE 0

RECURSIVE CmpStr(_, _)
\* str::cmp: lexicographic, a proper prefix is smaller.
CmpStr(a, b) ==
    IF a = <<>> /\ b = <<>> THEN 0
    ELSE IF a = <<>> THEN -1
    ELSE IF b = <<>> THEN 1
    ELSE IF Head(a) # Head(b) THEN CmpInt(CharCode(Head(a)), CharCode(Head(b)))
    ELSE CmpStr(Tail(a), Tail(b))

\* Ordering::reverse
Reverse(c) == 0 - c

\* str::starts_with
StartsWith(s, prefix) ==
    /\ Len(prefix) <= Len(s)
    /\ SubSeq(s, 1, Len(prefix)) = prefix

\* str::contains(char)
ContainsChar(s, c) == \E i \in 1..Len(s) : s[i] = c

\* str::contains(&str)
ContainsStr(s, sub) ==
    \E i \in 1..(Len(s) - Len(sub) + 1) : SubSeq(s, i, i + Len(sub) - 1) = sub

RECURSIVE Join(_, _)
\* [String]::join
Join(parts, sep) ==
    IF parts = <<>> THEN <<>>
    ELSE IF Len(parts) = 1 THEN parts[1]
    ELSE parts[1] \o sep \o Join(Tail(parts), sep)

\* char::to_lowercase on the characters of Ascii.
LowerChar(c) ==
    CASE c = "B" -> "b"
      [] c = "M" -> "m"
      [] c = "T" -> "t"
      [] c = "U" -> "u"
      [] c = "X" -> "x"
      [] c = "Y" -> "y"
      [] OTHER -> c

\* str::to_lowercase
ToLowercase(s) == [i \in 1..Len(s) |-> LowerChar(s[i])]

RECURSIVE TrimEndMatches(_, _)
\* str::trim_end_matches(char)
TrimEndMatches(s, c) ==
    IF s # <<>> /\ s[Len(s)] = c THEN TrimEndMatches(SubSeq(s, 1, Len(s) - 1), c)
    ELSE s

\* char::is_whitespace on the characters of Ascii.
IsWhitespace(c) == c \in {" ", "\n"}

RECURSIVE TrimStart(_)
TrimStart(s) == IF s # <<>> /\ IsWhitespace(Head(s)) THEN TrimStart(Tail(s)) ELSE s

RECURSIVE TrimEnd(_)
TrimEnd(s) ==
    IF s # <<>> /\ IsWhitespace(s[Len(s)]) THEN TrimEnd(SubSeq(s, 1, Len(s) - 1)) ELSE s

\* str::trim
Trim(s) == TrimStart(TrimEnd(s))

\* str::eq_ignore_ascii_case
EqIgnoreAsciiCase(a, b) ==
    /\ Len(a) = Len(b)
    /\ \A i \in 1..Len(a) : LowerChar(a[i]) = LowerChar(b[i])

(***************************************************************************)
(* Constants of src/core/constants.rs                                      *)
(***************************************************************************)
HIGH_MEMORY_THRESHOLD_MB == 500

SYSTEM_EXE_PATHS ==
    << <<"/", "u", "s", "r", "/", "l", "i", "b">>,
       <<"/", "u", "s", "r", "/", "l", "i", "b", "e", "x", "e", "c">>,
       <<"/", "l", "i", "b">> >>

\* CRITICAL_SERVICES, in the order of the source.
CRITICAL_SERVICES ==
    << <<"g", "n", "o", "m", "e", "-", "s", "h", "e", "l", "l">>,
       <<"k", "w", "i", "n">>,
       <<"k", "w", "i", "n", "_", "x", "1", "1">>,
       <<"k", "w", "i", "n", "_", "w", "a", "y", "l", "a", "n", "d">>,
       <<"p", "l", "a", "s", "m", "a", "s", "h", "e", "l", "l">>,
       <<"m", "u", "t", "t", "e", "r">>,
       <<"p", "i", "p", "e", "w", "i", "r", "e">>,
       <<"p", "i", "p", "e", "w", "i", "r", "e", "-", "p", "u", "l", "s", "e">>,
       <<"w", "i", "r", "e", "p", "l", "u", "m", "b", "e", "r">>,
       <<"p", "u", "l", "s", "e", "a", "u", "d", "i", "o">>,
       <<"t", "m", "u", "x">>,
       <<"t", "m", "u", "x", ":", " ", "s", "e", "r", "v", "e", "r">>,
       <<"m", "o", "s", "h", "-", "s", "e", "r", "v", "e", "r">>,
       <<"z", "s", "h">>,
       <<"-", "z", "s", "h">>,
       <<"b", "a", "s", "h">>,
       <<"-", "b", "a", "s", "h">>,
       <<"f", "i", "s", "h">>,
       <<"-", "f", "i", "s", "h">>,
       <<"s", "s", "h">>,
       <<"s", "s", "h", "d">>,
       <<"s", "y", "s", "t", "e", "m", "d">>,
       <<"i", "n", "i", "t">>,
       <<"d", "b", "u", "s", "-", "d", "a", "e", "m", "o", "n">>,
       <<"d", "b", "u", "s", "-", "b", "r", "o", "k", "e", "r">>,
       <<"i", "b", "u", "s", "-", "d", "a", "e", "m", "o", "n">>,
       <<"g", "j", "s">>,
       <<"g", "n", "o", "m", "e", "-", "k", "e", "y", "r", "i", "n", "g", "-", "d", "a", "e", "m", "o", "n">> >>

(***************************************************************************)
(* The process table of the machine                                        *)
(***************************************************************************)
\* ProcessInfo (src/core/models.rs), without the fields no decision reads:
\* parent_name, username, create_time, status.
ProcessInfo(pid, name, cmdline, cwd, ppid, rss_mb, cpu_percent, in_tmux, exe_deleted) ==
    [pid |-> pid, name |-> name, cmdline |-> cmdline, cwd |-> cwd, ppid |-> ppid,
     rss_mb |-> rss_mb, cpu_percent |-> cpu_percent,
     is_orphan |-> (ppid = 1),              \* process.rs:63
     in_tmux |-> in_tmux, exe_deleted |-> exe_deleted]

\* What sysinfo and /proc hold of one process: pid, name, the arguments of the
\* command line, memory in bytes and cpu usage, and as Options (<<>> when
\* absent or unreadable) the parent pid, the link /proc/<pid>/cwd, the
\* variables of /proc/<pid>/environ (its content between the NUL bytes) and
\* the link /proc/<pid>/exe.
Fact(pid, name, cmd, cwd, parent, memory, cpu, environ, exe) ==
    [pid |-> pid, name |-> name, cmd |-> cmd, cwd |-> cwd, parent |-> parent,
     memory |-> memory, cpu |-> cpu, environ |-> environ, exe |-> exe]

\* Bytes in one MB (process.rs:31).
BYTES_PER_MB == 1048576

\* The processes the machine may run.  A: an orphan outside any multiplexer;
\* D: a big stale database with no known parent; B: an orphan inside tmux;
\* S: an orphaned shell, a system service by name and by path, whose
\* environment and executable link cannot be read.
FactTable ==
    << Fact(100, <<"l", "e", "f", "t">>, << <<"l", "e", "f", "t">> >>,
            << <<"/", "w">> >>, <<1>>, 50 * BYTES_PER_MB, 5,
            << << <<"a", "=", "1">> >> >>, << <<"/", "w", "/", "a">> >>),
       Fact(300, <<"d", "b">>, << <<"d", "b">>, <<"-", "d">> >>,
            << <<"/", "v">> >>, <<>>, 600 * BYTES_PER_MB, 9,
            << <<>> >>,
            << <<"/", "v", "/", "d", "b", " ",
                 "(", "d", "e", "l", "e", "t", "e", "d", ")">> >>),
       Fact(200, <<"v", "i", "m">>, << <<"v", "i", "m">> >>,
            << <<"/", "w", "/", "x">> >>, <<1>>, 50 * BYTES_PER_MB, 1,
            << << <<"a", "=", "1">>, <<"T", "M", "U", "X", "=", "/", "t">> >> >>,
            << <<"/", "w", "/", "a">> >>),
       Fact(400, <<"B", "a", "s", "h">>, << <<"/", "l", "i", "b", "/", "s", "h">> >>,
            << <<"/", "w">> >>, <<1>>, 20 * BYTES_PER_MB, 0, <<>>, <<>>),
       \* P: an orphan that is a system service by its path only.
       Fact(500, <<"n", "o", "d", "e">>,
            << <<"/", "u", "s", "r", "/", "l", "i", "b", "/", "n", "o", "d", "e">> >>,
            << <<"/", "v">> >>, <<1>>, 70 * BYTES_PER_MB, 2,
            << <<>> >>, << <<"/", "w", "/", "a">> >>),
       \* N: an orphan that is a system service by its name only.
       Fact(600, <<"B", "a", "s", "h">>, << <<"B", "a", "s", "h">>, <<"-", "l">> >>,
            << <<"/", "w">> >>, <<1>>, 30 * BYTES_PER_MB, 3,
            << <<>> >>, << <<"/", "w", "/", "a">> >>),
       \* T: an orphan whose name only starts like a critical service; its
       \* memory is exactly HIGH_MEMORY_THRESHOLD_MB, and it runs in a directory
       \* named by three asterisks.
       Fact(700, <<"b", "a", "s", "h", "f", "u", "l">>,
            << <<"b", "a", "s", "h", "f", "u", "l">> >>,
            << <<"/", "w", "/", "*", "*", "*">> >>, <<1>>, 500 * BYTES_PER_MB, 4,
            << <<>> >>, << <<"/", "w", "/", "a">> >>) >>

\* get_cwd: the link, or "?" if it cannot be read.
get_cwd(f) == IF f.cwd # <<>> THEN f.cwd[1] ELSE <<"?">>

\* get_tmux_env: false if the environment cannot be read.
get_tmux_env(f) ==
    IF f.environ # <<>>
    THEN \E i \in 1..Len(f.environ[1]) :
             StartsWith(f.environ[1][i], <<"T", "M", "U", "X", "=">>)
    ELSE FALSE

\* is_exe_deleted: false if the link cannot be read.
is_exe_deleted(f) ==
    IF f.exe # <<>>
    THEN ContainsStr(f.exe[1], <<"(", "d", "e", "l", "e", "t", "e", "d", ")">>)
    ELSE FALSE

\* Mutant of Classify: a process without a known parent counts as a child of
\* pid 1.
ClassifyParentDefaultsToInit(f) ==
    ProcessInfo(f.pid, f.name, Join(f.cmd, <<" ">>), get_cwd(f),
                IF f.parent # <<>> THEN f.parent[1] ELSE 1,
                f.memory \div BYTES_PER_MB, f.cpu, get_tmux_env(f), is_exe_deleted(f))

\* get_process_list, the body of its loop: the ProcessInfo built of one
\* process (process.rs:31-82).
Classify(f) ==
    ProcessInfo(f.pid, f.name, Join(f.cmd, <<" ">>), get_cwd(f),
                IF f.parent # <<>> THEN f.parent[1] ELSE 0,
                f.memory \div BYTES_PER_MB, f.cpu, get_tmux_env(f), is_exe_deleted(f))

\* The ProcessInfo of each process the machine may run.
ProcTable == [i \in DOMAIN FactTable |-> Classify(FactTable[i])]

Universe == {ProcTable[i] : i \in 1..NumProcs}

RECURSIVE Perms(_)
\* Every order in which the elements of S can be enumerated.
Perms(S) ==
    IF S = {} THEN {<<>>}
    ELSE UNION {{<<x>> \o p : p \in Perms(S \ {x})} : x \in S}

\* What sysinfo's process map can yield: any subset of the machine's processes,
\* in any order (process.rs:28 iterates a HashMap).
RawTables == UNION {Perms(T) : T \in SUBSET Universe}

(***************************************************************************)
(* src/core/process.rs                                                     *)
(***************************************************************************)
\* Mutant of SortCmp: reverse is not honoured for the textual keys.
SortCmpTextNeverReversed(a, b, sort_by, reverse) ==
    LET cmp == CASE sort_by \in {"memory", "mem", "rss"} -> CmpInt(b.rss_mb, a.rss_mb)
                 [] sort_by = "cpu" -> CmpInt(b.cpu_percent, a.cpu_percent)
                 [] sort_by = "pid" -> CmpInt(a.pid, b.pid)
                 [] sort_by = "name" -> CmpStr(a.name, b.name)
                 [] sort_by = "cwd" -> CmpStr(a.cwd, b.cwd)
                 [] OTHER -> CmpInt(a.pid, b.pid)
    IN  IF ~reverse /\ sort_by \in {"memory", "cpu", "pid"} THEN Reverse(cmp)
        ELSE cmp

\* The closure of sort_processes: the Ordering of a against b.
SortCmp(a, b, sort_by, reverse) ==
    LET cmp == CASE sort_by \in {"memory", "mem", "rss"} -> CmpInt(b.rss_mb, a.rss_mb)
                 [] sort_by = "cpu" -> CmpInt(b.cpu_percent, a.cpu_percent)
                 [] sort_by = "pid" -> CmpInt(a.pid, b.pid)
                 [] sort_by = "name" -> CmpStr(a.name, b.name)
                 [] sort_by = "cwd" -> CmpStr(a.cwd, b.cwd)
                 [] OTHER -> CmpInt(a.pid, b.pid)
    IN  IF reverse /\ sort_by \in {"name", "cwd"} THEN Reverse(cmp)
        ELSE IF ~reverse /\ sort_by \in {"memory", "cpu", "pid"} THEN Reverse(cmp)
        ELSE cmp

RECURSIVE InsertSorted(_, _, _, _)
\* x placed after every element of the sorted s that is not greater than x.
InsertSorted(s, x, sort_by, reverse) ==
    IF s = <<>> THEN <<x>>
    ELSE IF SortCmp(x, Head(s), sort_by, reverse) < 0 THEN <<x>> \o s
    ELSE <<Head(s)>> \o InsertSorted(Tail(s), x, sort_by, reverse)

RECURSIVE sort_processes(_, _, _)
\* slice::sort_by is stable: equal elements keep their order.
sort_processes(procs, sort_by, reverse) ==
    IF procs = <<>> THEN <<>>
    ELSE InsertSorted(sort_processes(SubSeq(procs, 1, Len(procs) - 1), sort_by, reverse),
                      procs[Len(procs)], sort_by, reverse)

\* get_process_list on the raw table the fact provider yields.
get_process_list(raw, sort_by, min_memory_mb) ==
    sort_processes(SelectSeq(raw, LAMBDA p : ~(p.rss_mb < min_memory_mb)), sort_by, TRUE)

\* Every snapshot get_process_list can return.
Snapshots(sort_by, min_memory_mb) ==
    {get_process_list(raw, sort_by, min_memory_mb) : raw \in RawTables}

(***************************************************************************)
(* src/core/models.rs, src/core/filters.rs                                 *)
(***************************************************************************)
\* Mutant of is_orphan_candidate: the multiplexer is not looked at.
is_orphan_candidate_any_orphan(p) == p.is_orphan

is_orphan_candidate(p) == p.is_orphan /\ ~p.in_tmux

\* Mutant of is_system_service: a name that starts with a critical name matches.
is_system_service_name_prefix(p) ==
    \/ \E i \in 1..Len(SYSTEM_EXE_PATHS) : StartsWith(p.cmdline, SYSTEM_EXE_PATHS[i])
    \/ \E i \in 1..Len(CRITICAL_SERVICES) :
           StartsWith(ToLowercase(p.name), ToLowercase(CRITICAL_SERVICES[i]))

is_system_service(p) ==
    \/ \E i \in 1..Len(SYSTEM_EXE_PATHS) : StartsWith(p.cmdline, SYSTEM_EXE_PATHS[i])
    \/ \E i \in 1..Len(CRITICAL_SERVICES) :
           ToLowercase(p.name) = ToLowercase(CRITICAL_SERVICES[i])

filter_orphans(procs) == SelectSeq(procs, LAMBDA p : p.is_orphan)

filter_killable(procs) ==
    SelectSeq(procs, LAMBDA p : is_orphan_candidate(p) /\ ~is_system_service(p))

\* Mutant of filter_high_memory: a process at the threshold is kept.
filter_high_memory_inclusive(procs, threshold_mb) ==
    SelectSeq(procs, LAMBDA p : p.rss_mb >= threshold_mb)

filter_high_memory(procs, threshold_mb) ==
    SelectSeq(procs, LAMBDA p : p.rss_mb > threshold_mb)

filter_stale(procs) == SelectSeq(procs, LAMBDA p : p.exe_deleted)

(***************************************************************************)
(* glob::Pattern, as filter_by_cwd uses it                                 *)
(***************************************************************************)
\* std::path::is_separator on Linux.
IsSeparator(c) == c = "/"

\* The place of the first c in s at or after index from (1-based), 0 if none.
IndexFrom(s, c, from) ==
    IF \E i \in from..Len(s) : s[i] = c
    THEN CHOOSE i \in from..Len(s) : s[i] = c /\ \A j \in from..(i - 1) : s[j] # c
    ELSE 0

RECURSIVE ParseCharSpecifiers(_)
\* glob's parse_char_specifiers: x-y is a range, anything else a single char.
ParseCharSpecifiers(s) ==
    IF s = <<>> THEN <<>>
    ELSE IF Len(s) >= 3 /\ s[2] = "-"
         THEN <<[lo |-> s[1], hi |-> s[3]]>> \o ParseCharSpecifiers(SubSeq(s, 4, Len(s)))
         ELSE <<[lo |-> s[1], hi |-> s[1]]>> \o ParseCharSpecifiers(Tail(s))

InCharSpecifiers(cs, c) ==
    \E i \in 1..Len(cs) :
        CharCode(cs[i].lo) <= CharCode(c) /\ CharCode(c) <= CharCode(cs[i].hi)

RECURSIVE PatternTokens(_, _, _)
\* Pattern::new from index i (1-based) of chars, given the tokens so far:
\* <<tokens>> when the pattern is well formed, <<>> on a PatternError.
PatternTokens(chars, i, tokens) ==
    IF i > Len(chars) THEN <<tokens>>
    ELSE IF chars[i] = "?" THEN PatternTokens(chars, i + 1, Append(tokens, [t |-> "AnyChar"]))
    ELSE IF chars[i] = "*" THEN
        LET stars == CHOOSE n \in 1..(Len(chars) - i + 1) :
                         /\ \A j \in i..(i + n - 1) : chars[j] = "*"
                         /\ (i + n > Len(chars) \/ chars[i + n] # "*")
            e == i + stars   \* the index after the run of stars
        IN  IF stars > 2 THEN <<>>
            ELSE IF stars = 1
                 THEN PatternTokens(chars, e, Append(tokens, [t |-> "AnySequence"]))
            ELSE IF ~(i = 1 \/ IsSeparator(chars[i - 1])) THEN <<>>
            ELSE IF e <= Len(chars) /\ ~IsSeparator(chars[e]) THEN <<>>
            ELSE LET next == IF e <= Len(chars) THEN e + 1 ELSE e
                     collapse == Len(tokens) > 1 /\
                                 tokens[Len(tokens)].t = "AnyRecursiveSequence"
                 IN  PatternTokens(chars, next,
                         IF collapse THEN tokens
                         ELSE Append(tokens, [t |-> "AnyRecursiveSequence"]))
    ELSE IF chars[i] = "[" THEN
        IF i + 3 <= Len(chars) /\ chars[i + 1] = "!" THEN
            LET close == IndexFrom(chars, "]", i + 3)
            IN  IF close = 0 THEN <<>>
                ELSE PatternTokens(chars, close + 1,
                         Append(tokens, [t |-> "AnyExcept",
                             cs |-> ParseCharSpecifiers(SubSeq(chars, i + 2, close - 1))]))
        ELSE IF i + 2 <= Len(chars) /\ chars[i + 1] # "!" THEN
            LET close == IndexFrom(chars, "]", i + 2)
            IN  IF close = 0 THEN <<>>
                ELSE PatternTokens(chars, close + 1,
                         Append(tokens, [t |-> "AnyWithin",
                             cs |-> ParseCharSpecifiers(SubSeq(chars, i + 1, close - 1))]))
        ELSE <<>>
    ELSE PatternTokens(chars, i + 1, Append(tokens, [t |-> "Char", c |-> chars[i]]))

\* Pattern::new: Option of the token list.
PatternNew(pattern) == PatternTokens(pattern, 1, <<>>)

RECURSIVE MatchesFrom(_, _)
\* Pattern::matches_from under MatchOptions::new(): case sensitive, no literal
\* separator, no literal leading dot.
MatchesFrom(file, tokens) ==
    IF tokens = <<>> THEN file = <<>>
    ELSE LET tok == Head(tokens) IN
        IF tok.t \in {"AnySequence", "AnyRecursiveSequence"} THEN
            \/ MatchesFrom(file, Tail(tokens))
            \/ \E n \in 1..Len(file) :
                   /\ tok.t = "AnyRecursiveSequence" => IsSeparator(file[n])
                   /\ MatchesFrom(SubSeq(file, n + 1, Len(file)), Tail(tokens))
            \/ MatchesFrom(<<>>, Tail(tokens))
        ELSE /\ file # <<>>
             /\ CASE tok.t = "AnyChar" -> TRUE
                   [] tok.t = "AnyWithin" -> InCharSpecifiers(tok.cs, Head(file))
                   [] tok.t = "AnyExcept" -> ~InCharSpecifiers(tok.cs, Head(file))
                   [] tok.t = "Char" -> Head(file) = tok.c
             /\ MatchesFrom(Tail(file), Tail(tokens))

(***************************************************************************)
(* src/core/filters.rs: the working-directory filter                       *)
(***************************************************************************)
\* The directories that exist, each the canonical form of itself, and one
\* symbolic link /l to /w.
ExistingDirs ==
    {<<"/", "w">>, <<"/", "w", "/", "x">>, <<"/", "v">>,
     <<"/", "w", "/", "*", "*", "*">>}

\* Path::canonicalize: Option of the resolved absolute path.
Canonicalize(path) ==
    IF path = <<"/", "l">> THEN << <<"/", "w">> >>
    ELSE IF path \in ExistingDirs THEN <<path>>
    ELSE <<>>

normalize_path(path) ==
    LET trimmed == TrimEndMatches(path, "/")
        canon == Canonicalize(trimmed)
    IN  IF canon # <<>> THEN canon[1] ELSE trimmed

\* Mutant of filter_by_cwd: a pattern that is no well-formed glob finds nothing.
filter_by_cwd_no_fallback(procs, cwd_path_arg) ==
    LET cwd_path == Trim(cwd_path_arg)
        wild == ContainsChar(cwd_path, "*") \/ ContainsChar(cwd_path, "?")
        pattern == IF wild THEN PatternNew(cwd_path) ELSE <<>>
        normalized_cwd == normalize_path(cwd_path)
    IN  IF pattern # <<>>
        THEN SelectSeq(procs, LAMBDA p : MatchesFrom(p.cwd, pattern[1]))
        ELSE IF wild THEN <<>>
        ELSE SelectSeq(procs,
                 LAMBDA p : StartsWith(normalize_path(p.cwd), normalized_cwd))

filter_by_cwd(procs, cwd_path_arg) ==
    LET cwd_path == Trim(cwd_path_arg)
        pattern == IF ContainsChar(cwd_path, "*") \/ ContainsChar(cwd_path, "?")
                   THEN PatternNew(cwd_path) ELSE <<>>
        normalized_cwd == normalize_path(cwd_path)
    IN  IF pattern # <<>>
        THEN SelectSeq(procs, LAMBDA p : MatchesFrom(p.cwd, pattern[1]))
        ELSE SelectSeq(procs,
                 LAMBDA p : StartsWith(normalize_path(p.cwd), normalized_cwd))

(***************************************************************************)
(* src/core/actions.rs                                                     *)
(***************************************************************************)
\* Mutant of kill_process: the signal is SIGTERM whatever force says.
kill_process_always_term(pid, force) == [pid |-> pid, signal |-> "SIGTERM"]

\* kill_process: the one signal::kill call made for pid.
kill_process(pid, force) ==
    [pid |-> pid, signal |-> IF force THEN "SIGKILL" ELSE "SIGTERM"]

\* kill_processes: one call per pid, in input order.
kill_processes(pids, force) == [i \in 1..Len(pids) |-> kill_process(pids[i], force)]

\* What signal::kill can answer to one call: Ok, or one of the Errno values
\* kill_process tells apart; "EIO" stands for every other Errno.
Errnos == {"OK", "ESRCH", "EPERM", "EIO"}

\* kill_process: the KillResult built from the answer of signal::kill.
KillResult(pid, force, errno) ==
    [pid |-> pid,
     success |-> (errno = "OK"),
     message |-> IF errno = "OK"
                 THEN (IF force THEN "Force killed (SIGKILL)" ELSE "Terminated (SIGTERM)")
                 ELSE IF errno = "ESRCH" THEN "Process not found"
                 ELSE IF errno = "EPERM" THEN "Permission denied"
                 ELSE "Error: EIO: I/O error"]

\* The position of the first answer other than Ok, or Len(errnos) if all are Ok.
FirstFailure(errnos) ==
    IF \E i \in 1..Len(errnos) : errnos[i] # "OK"
    THEN CHOOSE i \in 1..Len(errnos) :
             errnos[i] # "OK" /\ \A j \in 1..(i - 1) : errnos[j] = "OK"
    ELSE Len(errnos)

\* Mutant of KillResults: the batch ends at the first failed send.
KillResultsStopAtFailure(pids, force, errnos) ==
    [i \in 1..FirstFailure(errnos) |-> KillResult(pids[i], force, errnos[i])]

\* kill_processes: the KillResult of each pid, in input order, where errnos[i]
\* is the answer of signal::kill to the i-th call.
KillResults(pids, force, errnos) ==
    [i \in 1..Len(pids) |-> KillResult(pids[i], force, errnos[i])]

(***************************************************************************)
(* src/cli/parser.rs, src/cli/commands.rs: the list command                *)
(***************************************************************************)
\* How many of the processes of ProcTable run when a command is given.
MaxCommandProcs == 3

\* What sysinfo's process map can yield to a command: any MaxCommandProcs of
\* the machine's processes, in any order.
CommandTables ==
    UNION {Perms(T) : T \in {U \in SUBSET {ProcTable[i] : i \in DOMAIN ProcTable} :
                                 Cardinality(U) <= MaxCommandProcs}}

\* ListArgs.min_memory, its default.
LIST_MIN_MEMORY_MB == 10

\* The values --filter can carry; "other" stands for every unknown name.
FilterNames == {"killable", "orphans", "high-memory", "stale", "other"}

\* The ListArgs clap can hand to cmd_list (format and columns only shape the
\* text that is printed).
ListArgs ==
    [sort : {"memory"},
     ascending : {FALSE},
     filter : {<<>>} \cup {<<f>> : f \in FilterNames},
     orphans : BOOLEAN,
     killable : BOOLEAN,
     high_memory : BOOLEAN,
     high_memory_threshold : {HIGH_MEMORY_THRESHOLD_MB, 50},
     min_memory : {LIST_MIN_MEMORY_MB},
     limit : {<<>>, <<1>>},
     cwd : {<<>>, << <<"/", "w">> >>}]

\* Mutant of get_filtered_processes: the orphans preset is tested first.
get_filtered_processes_orphans_first(raw, cwd, filter, orphans, killable, high_memory, high_memory_threshold, min_memory, sort_by) ==
    LET listed == get_process_list(raw, sort_by, min_memory)
        in_cwd == IF cwd # <<>> THEN filter_by_cwd(listed, cwd[1]) ELSE listed
    IN  IF orphans \/ filter = <<"orphans">> THEN filter_orphans(in_cwd)
        ELSE IF killable \/ filter = <<"killable">> THEN filter_killable(in_cwd)
        ELSE IF high_memory \/ filter = <<"high-memory">>
             THEN filter_high_memory(in_cwd, high_memory_threshold)
        ELSE IF filter = <<"stale">> THEN filter_stale(in_cwd)
        ELSE in_cwd

\* get_filtered_processes on the raw table the fact provider yields.
get_filtered_processes(raw, cwd, filter, orphans, killable, high_memory, high_memory_threshold, min_memory, sort_by) ==
    LET listed == get_process_list(raw, sort_by, min_memory)
        in_cwd == IF cwd # <<>> THEN filter_by_cwd(listed, cwd[1]) ELSE listed
    IN  IF killable \/ filter = <<"killable">> THEN filter_killable(in_cwd)
        ELSE IF orphans \/ filter = <<"orphans">> THEN filter_orphans(in_cwd)
        ELSE IF high_memory \/ filter = <<"high-memory">>
             THEN filter_high_memory(in_cwd, high_memory_threshold)
        ELSE IF filter = <<"stale">> THEN filter_stale(in_cwd)
        ELSE in_cwd

\* Vec::truncate
Truncate(v, limit) == IF Len(v) > limit THEN SubSeq(v, 1, limit) ELSE v

\* The values --cwd can carry: plain paths (one through the symbolic link, one
\* with a trailing slash), globs, and patterns glob refuses (three asterisks;
\* two asterisks that are not a whole path component).
CwdPatterns ==
    {<<"/", "w">>, <<"/", "l">>, <<"/", "w", "/">>,
     <<"/", "w", "/", "*">>, <<"/", "?">>,
     <<"/", "w", "/", "*", "*", "*">>, <<"/", "w", "*", "*">>}

\* The ListArgs of a list command given --cwd and nothing else.
ListArgsCwd ==
    [sort : {"memory"},
     ascending : {FALSE},
     filter : {<<>>},
     orphans : {FALSE},
     killable : {FALSE},
     high_memory : {FALSE},
     high_memory_threshold : {HIGH_MEMORY_THRESHOLD_MB},
     min_memory : {LIST_MIN_MEMORY_MB},
     limit : {<<>>},
     cwd : {<<c>> : c \in CwdPatterns}]

\* The values --sort documents (parser.rs:36).
SortFields == {"memory", "cpu", "pid", "name", "cwd"}

\* The ListArgs of a list command given --sort, with or without --ascending,
\* and nothing else.
ListArgsSort ==
    [sort : SortFields,
     ascending : BOOLEAN,
     filter : {<<>>},
     orphans : {FALSE},
     killable : {FALSE},
     high_memory : {FALSE},
     high_memory_threshold : {HIGH_MEMORY_THRESHOLD_MB},
     min_memory : {LIST_MIN_MEMORY_MB},
     limit : {<<>>},
     cwd : {<<>>}]

(***************************************************************************)
(* src/cli/parser.rs, src/cli/commands.rs: the kill command                *)
(***************************************************************************)
\* The KillArgs clap can hand to cmd_kill (output, columns and limit only
\* shape the preview text). Pid 999 is the pid of no process of ProcTable.
KillArgs ==
    [pids : {<<>>, <<100, 999>>, <<300, 100>>},
     force : BOOLEAN,
     yes : BOOLEAN,
     preview : BOOLEAN,
     killable : BOOLEAN,
     orphans : {FALSE},
     high_memory : {FALSE},
     filter : {<<>>, <<"stale">>},
     cwd : {<<>>},
     min_memory : {LIST_MIN_MEMORY_MB},
     high_memory_threshold : {HIGH_MEMORY_THRESHOLD_MB},
     sort : {"memory"}]

\* Mutant of get_kill_targets: the filters are applied to explicit ids too.
get_kill_targets_filters_pids(raw, a) ==
    LET found == get_filtered_processes(raw, a.cwd, a.filter, a.orphans, a.killable,
                     a.high_memory, a.high_memory_threshold, a.min_memory, a.sort)
    IN  IF a.pids # <<>>
        THEN SelectSeq(found, LAMBDA p : \E i \in 1..Len(a.pids) : a.pids[i] = p.pid)
        ELSE found

\* get_kill_targets on the raw table the fact provider yields.
get_kill_targets(raw, a) ==
    IF a.pids # <<>>
    THEN SelectSeq(get_process_list(raw, "pid", 0),
                   LAMBDA p : \E i \in 1..Len(a.pids) : a.pids[i] = p.pid)
    ELSE get_filtered_processes(raw, a.cwd, a.filter, a.orphans, a.killable,
             a.high_memory, a.high_memory_threshold, a.min_memory, a.sort)

\* The lines read_line can hand to confirm_kill; <<>> is the end of input.
Answers ==
    {<<"y", "\n">>, <<" ", "Y", "e", "s", "\n">>, <<"n", "\n">>, <<"\n">>, <<>>}

\* confirm_kill: whether the line read accepts the kill.
Accepts(input) ==
    \/ EqIgnoreAsciiCase(Trim(input), <<"y">>)
    \/ EqIgnoreAsciiCase(Trim(input), <<"y", "e", "s">>)

RECURSIVE SuccessCount(_)
\* cmd_kill: the loop that counts the successful results.
SuccessCount(results) ==
    IF results = <<>> THEN 0
    ELSE SuccessCount(Tail(results)) + (IF Head(results).success THEN 1 ELSE 0)

(***************************************************************************)
(* src/cli/parser.rs, src/cli/commands.rs: the groups and memory commands  *)
(***************************************************************************)
\* The GroupsArgs clap can hand to cmd_groups.
GroupsArgs == [format : {"table", "json"}, min_memory : {LIST_MIN_MEMORY_MB}]

\* The MemoryArgs clap can hand to cmd_memory.
MemoryArgs == [format : {"table", "json"}]

RECURSIVE LastSlash(_)
\* The position of the last "/" of s, or 0.
LastSlash(s) ==
    IF s = <<>> THEN 0
    ELSE IF s[Len(s)] = "/" THEN Len(s)
    ELSE LastSlash(SubSeq(s, 1, Len(s) - 1))

\* Path::new(s).file_name(), or "unknown": the last component of the path,
\* trailing separators aside; a path without one has no file name.
FileNameOrUnknown(s) ==
    LET path == TrimEndMatches(s, "/")
        name == SubSeq(path, LastSlash(path) + 1, Len(path))
    IN  IF name = <<>> THEN <<"u", "n", "k", "n", "o", "w", "n">> ELSE name

\* find_similar_processes: the key a process is grouped under.
GroupKey(p) == IF p.name = <<>> THEN FileNameOrUnknown(p.cmdline) ELSE p.name

\* find_similar_processes: the groups of two and more processes of one key,
\* each in the order of the list.
find_similar_processes(procs) ==
    LET keys == {GroupKey(procs[i]) : i \in 1..Len(procs)}
        group(k) == SelectSeq(procs, LAMBDA p : GroupKey(p) = k)
    IN  {[name |-> k, procs |-> group(k)] : k \in {j \in keys : Len(group(j)) >= 2}}

RECURSIVE TotalRss(_)
\* cmd_groups: the memory of a group.
TotalRss(procs) ==
    IF procs = <<>> THEN 0 ELSE Head(procs).rss_mb + TotalRss(Tail(procs))

\* cmd_groups: the orders in which the groups can be printed. The map is
\* iterated in any order; the table is sorted by memory, greatest first.
GroupOrders(groups, format) ==
    {o \in Perms(groups) :
        \/ format = "json"
        \/ \A i \in 1..(Len(o) - 1) : TotalRss(o[i].procs) >= TotalRss(o[i + 1].procs)}

\* Bytes in one GB (memory.rs:9).
BYTES_PER_GB == 1073741824

\* What sysinfo can report of the machine's memory, in bytes: a machine of one
\* GB with or without swap, and one that reports no memory at all.
MemoryFacts ==
    {m \in [total : {0, BYTES_PER_GB},
            used : {0, BYTES_PER_GB},
            available : {0, BYTES_PER_GB},
            swap_total : {0, BYTES_PER_GB},
            swap_used : {0, BYTES_PER_GB}] :
        /\ m.used <= m.total
        /\ m.available <= m.total
        /\ m.swap_used <= m.swap_total}

\* get_memory_summary on the memory facts m.
get_memory_summary(m) ==
    [total_gb |-> m.total \div BYTES_PER_GB,
     used_gb |-> m.used \div BYTES_PER_GB,
     free_gb |-> m.available \div BYTES_PER_GB,
     percent |-> IF m.total \div BYTES_PER_GB > 0
                 THEN ((m.used \div BYTES_PER_GB) * 100) \div (m.total \div BYTES_PER_GB)
                 ELSE 0,
     swap_total_gb |-> m.swap_total \div BYTES_PER_GB,
     swap_used_gb |-> m.swap_used \div BYTES_PER_GB]

(***************************************************************************)
(* src/python.rs: the Python bindings                                      *)
(***************************************************************************)
\* The arguments Python can hand to kill_process_py; force may be left out.
PyKillArgs == [pid : {100, 999}, force : {<<>>, <<FALSE>>, <<TRUE>>}]

\* Option::unwrap_or(false) of the force argument.
ForceOrFalse(force) == IF force = <<>> THEN FALSE ELSE force[1]

(***************************************************************************)
(* src/tui/screens.rs: ConfirmKillScreen                                   *)
(***************************************************************************)
\* Mutant of ConfirmKillScreenNew: the dialog opens on Yes.
ConfirmKillScreenNewAtYes(procs, force) ==
    [processes |-> procs, force |-> force, selected |-> TRUE]

\* ConfirmKillScreen::new
ConfirmKillScreenNew(procs, force) ==
    [processes |-> procs, force |-> force, selected |-> FALSE]

\* Mutant of toggle_selection: the toggle only ever moves to Yes.
toggle_selection_sticky(cs) == [cs EXCEPT !.selected = TRUE]

toggle_selection(cs) == [cs EXCEPT !.selected = ~cs.selected]

select_yes(cs) == [cs EXCEPT !.selected = TRUE]

select_no(cs) == [cs EXCEPT !.selected = FALSE]

\* Mutant of is_confirmed: the test is inverted.
is_confirmed_inverted(cs) == ~cs.selected

is_confirmed(cs) == cs.selected

(***************************************************************************)
(* src/tui/app.rs: App                                                     *)
(***************************************************************************)
Views == {"All", "Orphans", "Killable", "HighMemory"}

SortKeys == {"Memory", "Cpu", "Pid", "Name", "Cwd"}

\* SortKey::as_str
SortKeyAsStr(k) ==
    CASE k = "Memory" -> "memory"
      [] k = "Cpu" -> "cpu"
      [] k = "Pid" -> "pid"
      [] k = "Name" -> "name"
      [] k = "Cwd" -> "cwd"

\* The min_memory_mb that App::new and App::refresh pass to get_process_list.
APP_MIN_MEMORY_MB == 10

\* The threshold of the HighMemory view.
APP_HIGH_MEMORY_MB == 500

\* The rows PageUp and PageDown move by.
PAGE_ROWS == 10

\* The key codes the terminal can deliver; "x" stands for every unbound key.
ConfirmYesKeys == {"y", "Y"}
ConfirmNoKeys == {"n", "N", "Esc"}
ConfirmToggleKeys == {"Left", "Right", "Tab"}
ConfirmEnterKeys == {"Enter"}
ConfirmKeys == ConfirmYesKeys \cup ConfirmNoKeys \cup ConfirmToggleKeys \cup ConfirmEnterKeys

NormalKeys ==
    {"q", "r", "k", "K", "o", "O", "a", "m", "w", "W", " ", "s", "c",
     "1", "2", "3", "4", "5", "!", "Up", "Down", "PageUp", "PageDown", "Home", "End"}

Keys == ConfirmKeys \cup NormalKeys \cup {"x"}

\* App::apply_filters: the displayed list of a snapshot under the settings.
apply_filters(procs, v, cwdf, sk, sr) ==
    LET viewed == CASE v = "All" -> procs
                    [] v = "Orphans" -> filter_orphans(procs)
                    [] v = "Killable" -> filter_killable(procs)
                    [] v = "HighMemory" -> filter_high_memory(procs, APP_HIGH_MEMORY_MB)
        in_cwd == IF cwdf # <<>> THEN filter_by_cwd(viewed, cwdf[1]) ELSE viewed
    IN  sort_processes(in_cwd, SortKeyAsStr(sk), sr)

\* App::refresh, the cursor restore (app.rs:436-444).
RestoreCursor(cursor_pos, len) ==
    IF cursor_pos = <<>> THEN cursor_pos
    ELSE IF cursor_pos[1] < len THEN cursor_pos
    ELSE IF len # 0 THEN <<len - 1>>
    ELSE cursor_pos

\* Mutant of RetainValid: the bound test is off by one.
RetainValidOffByOne(sel, len) == SelectSeq(sel, LAMBDA idx : idx <= len)

\* App::refresh, self.selected.retain(|&idx| idx < len).
RetainValid(sel, len) == SelectSeq(sel, LAMBDA idx : idx < len)

\* Mutant of Refresh: last_refresh is not reset.
RefreshKeepsTimestamp(sel) ==
    /\ processes' \in Snapshots(SortKeyAsStr(sort_key), APP_MIN_MEMORY_MB)
    /\ filtered_processes' =
           apply_filters(processes', view, cwd_filter, sort_key, sort_reverse)
    /\ UNCHANGED refresh_due
    /\ table_state' = RestoreCursor(table_state, Len(filtered_processes'))
    /\ selected' = RetainValid(sel, Len(filtered_processes'))
    /\ dropped' = Len(sel) - Len(selected')
    /\ UNCHANGED <<view, sort_key, sort_reverse, cwd_filter>>

\* App::refresh, entered with the selection sel.
Refresh(sel) ==
    /\ processes' \in Snapshots(SortKeyAsStr(sort_key), APP_MIN_MEMORY_MB)
    /\ filtered_processes' =
           apply_filters(processes', view, cwd_filter, sort_key, sort_reverse)
    /\ refresh_due' = FALSE
    /\ table_state' = RestoreCursor(table_state, Len(filtered_processes'))
    /\ selected' = RetainValid(sel, Len(filtered_processes'))
    /\ dropped' = Len(sel) - Len(selected')
    /\ UNCHANGED <<view, sort_key, sort_reverse, cwd_filter>>

\* What a step that does not refresh leaves alone.
NoRefresh ==
    /\ dropped' = 0
    /\ UNCHANGED <<processes, refresh_due>>

\* Mutant of Init: the table starts without a cursor.
InitWithoutCursor ==
    /\ cli = <<>>
    /\ processes \in Snapshots("memory", APP_MIN_MEMORY_MB)
    /\ filtered_processes = processes
    /\ selected = <<>>
    /\ table_state = <<>>
    /\ view = "All"
    /\ sort_key = "Memory"
    /\ sort_reverse = TRUE
    /\ cwd_filter = <<>>
    /\ confirm_screen = <<>>
    /\ should_quit = FALSE
    /\ refresh_due = FALSE
    /\ pc = "draw"
    /\ event = ""
    /\ sent = <<>>
    /\ kill_results = <<>>
    /\ dropped = 0

\* main without a subcommand: App::new
Init ==
    /\ cli = <<>>
    /\ processes \in Snapshots("memory", APP_MIN_MEMORY_MB)
    /\ filtered_processes = processes
    /\ selected = <<>>
    /\ table_state = <<0>>
    /\ view = "All"
    /\ sort_key = "Memory"
    /\ sort_reverse = TRUE
    /\ cwd_filter = <<>>
    /\ confirm_screen = <<>>
    /\ should_quit = FALSE
    /\ refresh_due = FALSE
    /\ pc = "draw"
    /\ event = ""
    /\ sent = <<>>
    /\ kill_results = <<>>
    /\ dropped = 0

\* main with the list subcommand: Cli::parse has filled ListArgs, and no
\* session exists.
Parsed ==
    /\ cli \in {<<[command |-> "list", args |-> a, listed |-> <<>>, found |-> <<>>,
                    printed |-> <<>>]>> : a \in ListArgs}
    /\ pc = "command"
    /\ processes = <<>>
    /\ filtered_processes = <<>>
    /\ selected = <<>>
    /\ table_state = <<>>
    /\ view = "All"
    /\ sort_key = "Memory"
    /\ sort_reverse = TRUE
    /\ cwd_filter = <<>>
    /\ confirm_screen = <<>>
    /\ should_quit = FALSE
    /\ refresh_due = FALSE
    /\ event = ""
    /\ sent = <<>>
    /\ kill_results = <<>>
    /\ dropped = 0

\* main with the list subcommand and --cwd as its only option.
ParsedCwd ==
    /\ cli \in {<<[command |-> "list", args |-> a, listed |-> <<>>, found |-> <<>>,
                    printed |-> <<>>]>> : a \in ListArgsCwd}
    /\ pc = "command"
    /\ processes = <<>>
    /\ filtered_processes = <<>>
    /\ selected = <<>>
    /\ table_state = <<>>
    /\ view = "All"
    /\ sort_key = "Memory"
    /\ sort_reverse = TRUE
    /\ cwd_filter = <<>>
    /\ confirm_screen = <<>>
    /\ should_quit = FALSE
    /\ refresh_due = FALSE
    /\ event = ""
    /\ sent = <<>>
    /\ kill_results = <<>>
    /\ dropped = 0

\* main with the list subcommand and only --sort and --ascending given.
ParsedSort ==
    /\ cli \in {<<[command |-> "list", args |-> a, listed |-> <<>>, found |-> <<>>,
                    printed |-> <<>>]>> : a \in ListArgsSort}
    /\ pc = "command"
    /\ processes = <<>>
    /\ filtered_processes = <<>>
    /\ selected = <<>>
    /\ table_state = <<>>
    /\ view = "All"
    /\ sort_key = "Memory"
    /\ sort_reverse = TRUE
    /\ cwd_filter = <<>>
    /\ confirm_screen = <<>>
    /\ should_quit = FALSE
    /\ refresh_due = FALSE
    /\ event = ""
    /\ sent = <<>>
    /\ kill_results = <<>>
    /\ dropped = 0

\* cmd_list: the processes found and, cut to --limit, printed.
CmdList ==
    /\ pc = "command"
    /\ cli # <<>>
    /\ cli[1].command = "list"
    /\ \E raw \in CommandTables :
           LET a == cli[1].args
               found == get_filtered_processes(raw, a.cwd, a.filter, a.orphans,
                            a.killable, a.high_memory, a.high_memory_threshold,
                            a.min_memory, a.sort)
           IN  cli' = <<[cli[1] EXCEPT
                           !.listed = get_process_list(raw, a.sort, a.min_memory),
                           !.found = found,
                           !.printed = IF a.limit # <<>> THEN Truncate(found, a.limit[1])
                                       ELSE found]>>
    /\ pc' = "exit"
    /\ UNCHANGED <<processes, filtered_processes, selected, table_state, view,
                   sort_key, sort_reverse, cwd_filter, confirm_screen, should_quit,
                   refresh_due, event, sent, kill_results, dropped>>

\* What a command leaves alone: the session, which does not exist.
NoSession ==
    UNCHANGED <<processes, filtered_processes, selected, table_state, view,
                sort_key, sort_reverse, cwd_filter, confirm_screen, should_quit,
                refresh_due, event, kill_results, dropped>>

\* main with the kill subcommand: Cli::parse has filled KillArgs, standard
\* input is a terminal or not, and no session exists.
ParsedKill ==
    /\ cli \in {<<[command |-> "kill", args |-> a, tty |-> t, present |-> {},
                    targets |-> <<>>, answer |-> <<>>, errnos |-> <<>>,
                    results |-> <<>>, success_count |-> 0,
                    out |-> ""]>> : a \in KillArgs, t \in BOOLEAN}
    /\ pc = "command"
    /\ processes = <<>>
    /\ filtered_processes = <<>>
    /\ selected = <<>>
    /\ table_state = <<>>
    /\ view = "All"
    /\ sort_key = "Memory"
    /\ sort_reverse = TRUE
    /\ cwd_filter = <<>>
    /\ confirm_screen = <<>>
    /\ should_quit = FALSE
    /\ refresh_due = FALSE
    /\ event = ""
    /\ sent = <<>>
    /\ kill_results = <<>>
    /\ dropped = 0

\* cmd_kill up to the confirmation: the targets are found; none, or --preview,
\* ends the command; --yes, or a standard input that is no terminal, goes on to
\* the kill; otherwise confirm_kill prompts and waits for a line.
CmdKill ==
    /\ pc = "command"
    /\ cli # <<>>
    /\ cli[1].command = "kill"
    /\ \E raw \in CommandTables :
           LET a == cli[1].args
               targets == get_kill_targets(raw, a)
           IN  /\ cli' = <<[cli[1] EXCEPT
                               !.present = {raw[i].pid : i \in 1..Len(raw)},
                               !.targets = targets,
                               !.out = IF targets = <<>> THEN "No processes to kill"
                                       ELSE IF a.preview THEN "Would kill"
                                       ELSE @]>>
               /\ pc' = IF targets = <<>> \/ a.preview THEN "exit"
                        ELSE IF a.yes \/ ~cli[1].tty THEN "kill"
                        ELSE "prompt"
    /\ sent' = <<>>
    /\ NoSession

\* confirm_kill at read_line: "y" or "yes", trimmed and in any case, goes on to
\* the kill; any other line, or the end of the input, cancels the command.
ConfirmKillAnswer ==
    /\ pc = "prompt"
    /\ \E input \in Answers :
           /\ pc' = IF Accepts(input) THEN "kill" ELSE "exit"
           /\ cli' = <<[cli[1] EXCEPT
                           !.answer = <<input>>,
                           !.out = IF Accepts(input) THEN @ ELSE "Cancelled"]>>
    /\ sent' = <<>>
    /\ NoSession

\* cmd_kill from kill_processes on: one signal per target, and the report.
CmdKillReport ==
    /\ pc = "kill"
    /\ LET a == cli[1].args
           pids == [i \in 1..Len(cli[1].targets) |-> cli[1].targets[i].pid]
       IN  /\ sent' = kill_processes(pids, a.force)
           /\ \E errnos \in [1..Len(pids) -> Errnos] :
                  LET results == KillResults(pids, a.force, errnos)
                  IN  cli' = <<[cli[1] EXCEPT
                                  !.errnos = errnos,
                                  !.results = results,
                                  !.success_count = SuccessCount(results),
                                  !.out = "Killed"]>>
    /\ pc' = "exit"
    /\ NoSession

\* main with the groups subcommand.
ParsedGroups ==
    /\ cli \in {<<[command |-> "groups", args |-> a, groups |-> {},
                    printed |-> <<>>]>> : a \in GroupsArgs}
    /\ pc = "command"
    /\ processes = <<>>
    /\ filtered_processes = <<>>
    /\ selected = <<>>
    /\ table_state = <<>>
    /\ view = "All"
    /\ sort_key = "Memory"
    /\ sort_reverse = TRUE
    /\ cwd_filter = <<>>
    /\ confirm_screen = <<>>
    /\ should_quit = FALSE
    /\ refresh_due = FALSE
    /\ event = ""
    /\ sent = <<>>
    /\ kill_results = <<>>
    /\ dropped = 0

\* cmd_groups: the groups found among the processes listed by memory, and the
\* order they are printed in.
CmdGroups ==
    /\ pc = "command"
    /\ cli # <<>>
    /\ cli[1].command = "groups"
    /\ \E raw \in CommandTables :
           LET a == cli[1].args
               groups == find_similar_processes(
                             get_process_list(raw, "memory", a.min_memory))
           IN  \E order \in GroupOrders(groups, a.format) :
                   cli' = <<[cli[1] EXCEPT !.groups = groups, !.printed = order]>>
    /\ pc' = "exit"
    /\ sent' = <<>>
    /\ NoSession

\* main with the memory subcommand.
ParsedMemory ==
    /\ cli \in {<<[command |-> "memory", args |-> a, summary |-> <<>>]>> :
                   a \in MemoryArgs}
    /\ pc = "command"
    /\ processes = <<>>
    /\ filtered_processes = <<>>
    /\ selected = <<>>
    /\ table_state = <<>>
    /\ view = "All"
    /\ sort_key = "Memory"
    /\ sort_reverse = TRUE
    /\ cwd_filter = <<>>
    /\ confirm_screen = <<>>
    /\ should_quit = FALSE
    /\ refresh_due = FALSE
    /\ event = ""
    /\ sent = <<>>
    /\ kill_results = <<>>
    /\ dropped = 0

\* cmd_memory: the summary that is printed.
CmdMemory ==
    /\ pc = "command"
    /\ cli # <<>>
    /\ cli[1].command = "memory"
    /\ \E m \in MemoryFacts :
           cli' = <<[cli[1] EXCEPT !.summary = <<get_memory_summary(m)>>]>>
    /\ pc' = "exit"
    /\ sent' = <<>>
    /\ NoSession

\* The Python module is loaded: no call has been made yet.
PyLoaded ==
    /\ cli = <<[command |-> "python", returned |-> <<>>]>>
    /\ pc = "library"
    /\ processes = <<>>
    /\ filtered_processes = <<>>
    /\ selected = <<>>
    /\ table_state = <<>>
    /\ view = "All"
    /\ sort_key = "Memory"
    /\ sort_reverse = TRUE
    /\ cwd_filter = <<>>
    /\ confirm_screen = <<>>
    /\ should_quit = FALSE
    /\ refresh_due = FALSE
    /\ event = ""
    /\ sent = <<>>
    /\ kill_results = <<>>
    /\ dropped = 0

\* kill_process_py: one signal, and the pair (success, message) returned.
KillProcessPy ==
    /\ pc = "library"
    /\ \E a \in PyKillArgs, errno \in Errnos :
           LET result == KillResult(a.pid, ForceOrFalse(a.force), errno)
           IN  /\ sent' = <<kill_process(a.pid, ForceOrFalse(a.force))>>
               /\ cli' = <<[cli[1] EXCEPT
                               !.returned = <<result.success, result.message>>]>>
    /\ UNCHANGED pc
    /\ NoSession

\* App::render_table: the Table widget is handed &mut table_state, and where it
\* has room to draw (clamp) it moves a cursor beyond the last row onto the last
\* row and drops the cursor of an empty table.
RenderCursor(cursor, len, clamp) ==
    IF ~clamp THEN cursor
    ELSE IF len = 0 THEN <<>>
    ELSE IF cursor # <<>> /\ cursor[1] >= len THEN <<len - 1>>
    ELSE cursor

\* App::run, terminal.draw (app.rs:113).
Draw ==
    /\ pc = "draw"
    /\ \E clamp \in BOOLEAN :
           table_state' = RenderCursor(table_state, Len(filtered_processes), clamp)
    /\ pc' = "poll"
    /\ event' = ""
    /\ UNCHANGED cli
    /\ sent' = <<>>
    /\ kill_results' = <<>>
    /\ NoRefresh
    /\ UNCHANGED <<filtered_processes, selected, view, sort_key, sort_reverse,
                   cwd_filter, confirm_screen, should_quit>>

\* Time passes in event::poll: more than five seconds since the last refresh.
TimePasses ==
    /\ pc = "poll"
    /\ ~refresh_due
    /\ refresh_due' = TRUE
    /\ UNCHANGED <<processes, filtered_processes, selected, table_state, view,
                   sort_key, sort_reverse, cwd_filter, confirm_screen, should_quit,
                   pc, event, sent, kill_results, cli, dropped>>

\* event::poll timed out, or the event was no key press (app.rs:116-122).
NoKey ==
    /\ pc = "poll"
    /\ pc' = "auto"
    /\ event' = ""
    /\ UNCHANGED cli
    /\ sent' = <<>>
    /\ kill_results' = <<>>
    /\ NoRefresh
    /\ UNCHANGED <<filtered_processes, selected, table_state, view, sort_key,
                   sort_reverse, cwd_filter, confirm_screen, should_quit>>

\* Mutant of InConfirmBranch: the kill keys fall through to the normal branch.
InConfirmBranchExceptKill(k) == confirm_screen # <<>> /\ k \notin {"k", "K"}

\* handle_key takes the confirm branch (app.rs:143).
InConfirmBranch(k) == confirm_screen # <<>>

\* Mutant of ConfirmArm: 'q' shares the arm of 'n'.
ConfirmArmQuitCancels(k) ==
    CASE k \in ConfirmYesKeys -> "yes"
      [] k \in ConfirmNoKeys \cup {"q"} -> "no"
      [] k \in ConfirmToggleKeys -> "toggle"
      [] k \in ConfirmEnterKeys -> "enter"
      [] OTHER -> "ignored"

\* The arm of the confirm branch's match that takes key k (app.rs:144-163).
ConfirmArm(k) ==
    CASE k \in ConfirmYesKeys -> "yes"
      [] k \in ConfirmNoKeys -> "no"
      [] k \in ConfirmToggleKeys -> "toggle"
      [] k \in ConfirmEnterKeys -> "enter"
      [] OTHER -> "ignored"

\* The arm of the normal match that takes key k (app.rs:168-195): one per bound key.
NormalArm(k) == IF k \in NormalKeys THEN k ELSE "ignored"

\* A key press reaches App::handle_key, which runs the arm named arm.
Dispatch(arm) ==
    /\ pc = "poll"
    /\ pc' = "auto"
    /\ event' = arm
    /\ UNCHANGED cli

\* Some key that the confirm branch hands to arm is pressed while it is taken.
ConfirmKeyPressed(arm) ==
    \E k \in Keys : InConfirmBranch(k) /\ ConfirmArm(k) = arm

\* What signal::kill can answer to n calls: each Ok (TRUE) or an Errno (FALSE),
\* as the target still runs and may be signalled or not (actions.rs:33-58).
KillOutcomes(n) == [1..n -> BOOLEAN]

\* Mutant of DoKill: the selection is not cleared before the refresh.
DoKillKeepsSelection(cs) ==
    /\ sent' = kill_processes([i \in 1..Len(cs.processes) |-> cs.processes[i].pid],
                              cs.force)
    /\ kill_results' \in KillOutcomes(Len(cs.processes))
    /\ Refresh(selected)

\* App::do_kill with the confirm screen cs (app.rs:563-573).
DoKill(cs) ==
    /\ sent' = kill_processes([i \in 1..Len(cs.processes) |-> cs.processes[i].pid],
                              cs.force)
    /\ kill_results' \in KillOutcomes(Len(cs.processes))
    /\ Refresh(<<>>)

\* Mutant of ConfirmYes: 'y' moves the choice to Yes and waits for Enter.
ConfirmYesSelectsOnly ==
    /\ ConfirmKeyPressed("yes")
    /\ Dispatch("yes")
    /\ confirm_screen' = <<select_yes(confirm_screen[1])>>
    /\ sent' = <<>>
    /\ kill_results' = <<>>
    /\ NoRefresh
    /\ UNCHANGED <<filtered_processes, selected, table_state, view, sort_key,
                   sort_reverse, cwd_filter, should_quit>>

\* 'y' | 'Y' while a confirmation is pending.
ConfirmYes ==
    /\ ConfirmKeyPressed("yes")
    /\ Dispatch("yes")
    /\ DoKill(select_yes(confirm_screen[1]))
    /\ confirm_screen' = <<>>
    /\ UNCHANGED should_quit

\* Mutant of ConfirmNo: cancelling clears the selection as well.
ConfirmNoClearsSelection ==
    /\ ConfirmKeyPressed("no")
    /\ Dispatch("no")
    /\ confirm_screen' = <<>>
    /\ sent' = <<>>
    /\ kill_results' = <<>>
    /\ NoRefresh
    /\ selected' = <<>>
    /\ UNCHANGED <<filtered_processes, table_state, view, sort_key,
                   sort_reverse, cwd_filter, should_quit>>

\* 'n' | 'N' | Esc while a confirmation is pending.
ConfirmNo ==
    /\ ConfirmKeyPressed("no")
    /\ Dispatch("no")
    /\ confirm_screen' = <<>>
    /\ sent' = <<>>
    /\ kill_results' = <<>>
    /\ NoRefresh
    /\ UNCHANGED <<filtered_processes, selected, table_state, view, sort_key,
                   sort_reverse, cwd_filter, should_quit>>

\* Left | Right | Tab while a confirmation is pending.
ConfirmToggle ==
    /\ ConfirmKeyPressed("toggle")
    /\ Dispatch("toggle")
    /\ confirm_screen' = <<toggle_selection(confirm_screen[1])>>
    /\ sent' = <<>>
    /\ kill_results' = <<>>
    /\ NoRefresh
    /\ UNCHANGED <<filtered_processes, selected, table_state, view, sort_key,
                   sort_reverse, cwd_filter, should_quit>>

\* Mutant of ConfirmEnter: the batch is read again from the rows selected when
\* Enter is pressed.
ConfirmEnterRereadsSelection ==
    /\ ConfirmKeyPressed("enter")
    /\ Dispatch("enter")
    /\ IF is_confirmed(confirm_screen[1])
       THEN LET valid == SelectSeq(selected, LAMBDA idx : idx < Len(filtered_processes))
            IN  DoKill([confirm_screen[1] EXCEPT
                           !.processes = [i \in 1..Len(valid) |->
                                             filtered_processes[valid[i] + 1]]])
       ELSE /\ sent' = <<>>
            /\ kill_results' = <<>>
            /\ NoRefresh
            /\ UNCHANGED <<filtered_processes, selected, table_state, view,
                           sort_key, sort_reverse, cwd_filter>>
    /\ confirm_screen' = <<>>
    /\ UNCHANGED should_quit

\* Enter while a confirmation is pending.
ConfirmEnter ==
    /\ ConfirmKeyPressed("enter")
    /\ Dispatch("enter")
    /\ IF is_confirmed(confirm_screen[1])
       THEN DoKill(confirm_screen[1])
       ELSE /\ sent' = <<>>
            /\ kill_results' = <<>>
            /\ NoRefresh
            /\ UNCHANGED <<filtered_processes, selected, table_state, view,
                           sort_key, sort_reverse, cwd_filter>>
    /\ confirm_screen' = <<>>
    /\ UNCHANGED should_quit

\* Any other key while a confirmation is pending: the arm _ => {}.
ConfirmOther ==
    /\ ConfirmKeyPressed("ignored")
    /\ Dispatch("ignored")
    /\ sent' = <<>>
    /\ kill_results' = <<>>
    /\ NoRefresh
    /\ UNCHANGED <<filtered_processes, selected, table_state, view, sort_key,
                   sort_reverse, cwd_filter, confirm_screen, should_quit>>

\* What a normal-mode key that only moves the cursor or the selection leaves alone.
ListUnchanged ==
    /\ sent' = <<>>
    /\ kill_results' = <<>>
    /\ NoRefresh
    /\ UNCHANGED <<filtered_processes, view, sort_key, sort_reverse, cwd_filter,
                   confirm_screen, should_quit>>

\* Mutant of Refiltered: the displayed list is not recomputed.
RefilteredStale ==
    /\ UNCHANGED filtered_processes
    /\ sent' = <<>>
    /\ kill_results' = <<>>
    /\ NoRefresh
    /\ UNCHANGED <<confirm_screen, should_quit>>

\* What a normal-mode key that re-filters or re-sorts the snapshot leaves alone,
\* and the displayed list it recomputes (apply_filters on the new settings).
Refiltered ==
    /\ filtered_processes' =
           apply_filters(processes, view', cwd_filter', sort_key', sort_reverse')
    /\ sent' = <<>>
    /\ kill_results' = <<>>
    /\ NoRefresh
    /\ UNCHANGED <<confirm_screen, should_quit>>

\* 'q'
KeyQuit(k) ==
    /\ ~InConfirmBranch(k)
    /\ Dispatch(NormalArm(k))
    /\ k = "q"
    /\ should_quit' = TRUE
    /\ sent' = <<>>
    /\ kill_results' = <<>>
    /\ NoRefresh
    /\ UNCHANGED <<filtered_processes, selected, table_state, view, sort_key,
                   sort_reverse, cwd_filter, confirm_screen>>

\* 'r'
KeyRefresh(k) ==
    /\ ~InConfirmBranch(k)
    /\ Dispatch(NormalArm(k))
    /\ k = "r"
    /\ Refresh(selected)
    /\ sent' = <<>>
    /\ kill_results' = <<>>
    /\ UNCHANGED <<confirm_screen, should_quit>>

\* Mutant of KillTargets: every displayed process is a target.
KillTargetsAllDisplayed(sel, displayed) == displayed

\* App::show_kill_confirm: the processes at the selected positions that exist.
KillTargets(sel, displayed) ==
    LET valid == SelectSeq(sel, LAMBDA idx : idx < Len(displayed))
    IN  [i \in 1..Len(valid) |-> displayed[valid[i] + 1]]

\* App::show_kill_confirm: the confirm screen after the call.
ShowKillConfirm(force) ==
    LET targets == KillTargets(selected, filtered_processes)
    IN  IF targets # <<>> THEN <<ConfirmKillScreenNew(targets, force)>>
        ELSE confirm_screen

\* Mutant of KeyKill: the kill keys signal the selected processes at once.
KeyKillImmediately(k) ==
    /\ ~InConfirmBranch(k)
    /\ Dispatch(NormalArm(k))
    /\ k \in {"k", "K"}
    /\ LET targets == KillTargets(selected, filtered_processes)
       IN  /\ sent' = kill_processes([i \in 1..Len(targets) |-> targets[i].pid], k = "K")
           /\ kill_results' \in KillOutcomes(Len(targets))
    /\ NoRefresh
    /\ UNCHANGED <<filtered_processes, selected, table_state, view, sort_key,
                   sort_reverse, cwd_filter, confirm_screen, should_quit>>

\* 'k' (graceful) and 'K' (forced)
KeyKill(k) ==
    /\ ~InConfirmBranch(k)
    /\ Dispatch(NormalArm(k))
    /\ k \in {"k", "K"}
    /\ confirm_screen' = ShowKillConfirm(k = "K")
    /\ sent' = <<>>
    /\ kill_results' = <<>>
    /\ NoRefresh
    /\ UNCHANGED <<filtered_processes, selected, table_state, view, sort_key,
                   sort_reverse, cwd_filter, should_quit>>

\* The view a view key selects (app.rs:173-176).
KeyView(k) ==
    CASE k = "o" -> "Orphans"
      [] k = "O" -> "Killable"
      [] k = "a" -> "All"
      [] k = "m" -> "HighMemory"

\* Mutant of KeySetView: a view switch returns to the default sort.
KeySetViewResetsSort(k) ==
    /\ ~InConfirmBranch(k)
    /\ Dispatch(NormalArm(k))
    /\ k \in {"o", "O", "a", "m"}
    /\ view' = KeyView(k)
    /\ sort_key' = "Memory"
    /\ sort_reverse' = TRUE
    /\ UNCHANGED cwd_filter
    /\ Refiltered
    /\ selected' = <<>>
    /\ table_state' = <<0>>

\* App::set_view
KeySetView(k) ==
    /\ ~InConfirmBranch(k)
    /\ Dispatch(NormalArm(k))
    /\ k \in {"o", "O", "a", "m"}
    /\ view' = KeyView(k)
    /\ UNCHANGED <<sort_key, sort_reverse, cwd_filter>>
    /\ Refiltered
    /\ selected' = <<>>
    /\ table_state' = <<0>>

\* The sort key a digit selects (app.rs:182-186).
KeySortKey(k) ==
    CASE k = "1" -> "Memory"
      [] k = "2" -> "Cpu"
      [] k = "3" -> "Pid"
      [] k = "4" -> "Name"
      [] k = "5" -> "Cwd"

\* App::set_sort: the reverse flag after the call.
SetSortReverse(old_key, old_reverse, new_key) ==
    IF old_key = new_key THEN ~old_reverse
    ELSE new_key \in {"Memory", "Cpu", "Pid"}

\* App::set_sort
KeySetSort(k) ==
    /\ ~InConfirmBranch(k)
    /\ Dispatch(NormalArm(k))
    /\ k \in {"1", "2", "3", "4", "5"}
    /\ sort_key' = KeySortKey(k)
    /\ sort_reverse' = SetSortReverse(sort_key, sort_reverse, KeySortKey(k))
    /\ UNCHANGED <<view, cwd_filter>>
    /\ Refiltered
    /\ UNCHANGED <<selected, table_state>>

\* App::toggle_sort_order
KeyToggleSortOrder(k) ==
    /\ ~InConfirmBranch(k)
    /\ Dispatch(NormalArm(k))
    /\ k = "!"
    /\ sort_reverse' = ~sort_reverse
    /\ UNCHANGED <<view, cwd_filter, sort_key>>
    /\ Refiltered
    /\ UNCHANGED <<selected, table_state>>

\* App::filter_by_current_cwd: whether the cursor points at a displayed process.
CursorOnRow == table_state # <<>> /\ table_state[1] < Len(filtered_processes)

\* Mutant of KeyFilterCwd: without a process under the cursor the selection and
\* the cursor are reset all the same.
KeyFilterCwdAlwaysResets(k) ==
    /\ ~InConfirmBranch(k)
    /\ Dispatch(NormalArm(k))
    /\ k = "w"
    /\ IF CursorOnRow
       THEN /\ cwd_filter' = <<filtered_processes[table_state[1] + 1].cwd>>
            /\ UNCHANGED <<view, sort_key, sort_reverse>>
            /\ Refiltered
       ELSE ListUnchanged
    /\ selected' = <<>>
    /\ table_state' = <<0>>

\* App::filter_by_current_cwd
KeyFilterCwd(k) ==
    /\ ~InConfirmBranch(k)
    /\ Dispatch(NormalArm(k))
    /\ k = "w"
    /\ IF CursorOnRow
       THEN /\ cwd_filter' = <<filtered_processes[table_state[1] + 1].cwd>>
            /\ UNCHANGED <<view, sort_key, sort_reverse>>
            /\ Refiltered
            /\ selected' = <<>>
            /\ table_state' = <<0>>
       ELSE /\ ListUnchanged
            /\ UNCHANGED <<selected, table_state>>

\* App::clear_cwd_filter
KeyClearCwd(k) ==
    /\ ~InConfirmBranch(k)
    /\ Dispatch(NormalArm(k))
    /\ k = "W"
    /\ cwd_filter' = <<>>
    /\ UNCHANGED <<view, sort_key, sort_reverse>>
    /\ Refiltered
    /\ selected' = <<>>
    /\ table_state' = <<0>>

\* Mutant of ToggleCurrentSelection: the cursor position is pushed whether it
\* is selected or not.
ToggleCurrentSelectionAlwaysPush(sel, cursor) ==
    IF cursor = <<>> THEN sel ELSE Append(sel, cursor[1])

\* App::toggle_current_selection: the selection after the call.
ToggleCurrentSelection(sel, cursor) ==
    IF cursor = <<>> THEN sel
    ELSE IF \E i \in 1..Len(sel) : sel[i] = cursor[1]
         THEN LET pos == IndexFrom(sel, cursor[1], 1)
              IN  SubSeq(sel, 1, pos - 1) \o SubSeq(sel, pos + 1, Len(sel))
         ELSE Append(sel, cursor[1])

\* App::select_all: the selection after the call.
SelectAll(len) == [i \in 1..len |-> i - 1]

\* ' ', 's', 'c'
KeySelection(k) ==
    /\ ~InConfirmBranch(k)
    /\ Dispatch(NormalArm(k))
    /\ k \in {" ", "s", "c"}
    /\ selected' = CASE k = " " -> ToggleCurrentSelection(selected, table_state)
                     [] k = "s" -> SelectAll(Len(filtered_processes))
                     [] k = "c" -> <<>>
    /\ ListUnchanged
    /\ UNCHANGED table_state

\* usize::saturating_sub and min
SaturatingSub(a, b) == IF a > b THEN a - b ELSE 0
Min(a, b) == IF a < b THEN a ELSE b

\* Option::unwrap_or(0) of the cursor
CursorOrZero(cursor) == IF cursor = <<>> THEN 0 ELSE cursor[1]

\* Mutant of MoveCursor: Down and Up do not wrap.
MoveCursorNoWrap(k, cursor, len) ==
    IF len = 0 THEN cursor
    ELSE CASE k = "Down" -> <<IF cursor = <<>> THEN 0 ELSE cursor[1] + 1>>
           [] k = "Up" -> <<IF cursor = <<>> THEN 0 ELSE SaturatingSub(cursor[1], 1)>>
           [] k = "PageUp" -> <<SaturatingSub(CursorOrZero(cursor), PAGE_ROWS)>>
           [] k = "PageDown" -> <<Min(CursorOrZero(cursor) + PAGE_ROWS, len - 1)>>
           [] k = "Home" -> <<0>>
           [] k = "End" -> <<len - 1>>

\* App::next_row, previous_row, page_up, page_down, first_row, last_row: the
\* cursor after the call on a list of len rows.
MoveCursor(k, cursor, len) ==
    IF len = 0 THEN cursor
    ELSE CASE k = "Down" ->
                <<IF cursor = <<>> THEN 0
                  ELSE IF cursor[1] >= len - 1 THEN 0 ELSE cursor[1] + 1>>
           [] k = "Up" ->
                <<IF cursor = <<>> THEN 0
                  ELSE IF cursor[1] = 0 THEN len - 1 ELSE cursor[1] - 1>>
           [] k = "PageUp" -> <<SaturatingSub(CursorOrZero(cursor), PAGE_ROWS)>>
           [] k = "PageDown" -> <<Min(CursorOrZero(cursor) + PAGE_ROWS, len - 1)>>
           [] k = "Home" -> <<0>>
           [] k = "End" -> <<len - 1>>

\* Up, Down, PageUp, PageDown, Home, End
KeyMove(k) ==
    /\ ~InConfirmBranch(k)
    /\ Dispatch(NormalArm(k))
    /\ k \in {"Up", "Down", "PageUp", "PageDown", "Home", "End"}
    /\ table_state' = MoveCursor(k, table_state, Len(filtered_processes))
    /\ ListUnchanged
    /\ UNCHANGED selected

\* Any other key in normal mode: the arm _ => {}.
KeyUnbound(k) ==
    /\ ~InConfirmBranch(k)
    /\ Dispatch(NormalArm(k))
    /\ NormalArm(k) = "ignored"
    /\ ListUnchanged
    /\ UNCHANGED <<selected, table_state>>

\* App::handle_key, the confirm branch
HandleConfirmKey ==
    \/ ConfirmYes
    \/ ConfirmNo
    \/ ConfirmToggle
    \/ ConfirmEnter
    \/ ConfirmOther

\* App::handle_key, the normal branch
HandleKey(k) ==
    \/ KeyQuit(k)
    \/ KeyRefresh(k)
    \/ KeyKill(k)
    \/ KeySetView(k)
    \/ KeySetSort(k)
    \/ KeyToggleSortOrder(k)
    \/ KeyFilterCwd(k)
    \/ KeyClearCwd(k)
    \/ KeySelection(k)
    \/ KeyMove(k)
    \/ KeyUnbound(k)

\* Mutant of EndIteration: the refresh test is made only on an iteration that
\* handled no key.
EndIterationIdleOnly ==
    /\ pc = "auto"
    /\ IF refresh_due /\ event = ""
       THEN /\ Refresh(selected)
            /\ event' = "tick"
       ELSE /\ NoRefresh
            /\ event' = ""
            /\ UNCHANGED <<filtered_processes, selected, table_state, view,
                           sort_key, sort_reverse, cwd_filter>>
    /\ sent' = <<>>
    /\ kill_results' = <<>>
    /\ pc' = IF should_quit THEN "done" ELSE "draw"
    /\ UNCHANGED <<confirm_screen, should_quit, cli>>

\* App::run, the automatic refresh and the quit test that end an iteration
\* (app.rs:124-131).
EndIteration ==
    /\ pc = "auto"
    /\ IF refresh_due
       THEN /\ Refresh(selected)
            /\ event' = "tick"
       ELSE /\ NoRefresh
            /\ event' = ""
            /\ UNCHANGED <<filtered_processes, selected, table_state, view,
                           sort_key, sort_reverse, cwd_filter>>
    /\ sent' = <<>>
    /\ kill_results' = <<>>
    /\ pc' = IF should_quit THEN "done" ELSE "draw"
    /\ UNCHANGED <<confirm_screen, should_quit, cli>>

Next ==
    \/ Draw
    \/ TimePasses
    \/ NoKey
    \/ HandleConfirmKey
    \/ \E k \in Keys : HandleKey(k)
    \/ EndIteration

Spec == Init /\ [][Next]_vars

\* The program run with the list subcommand.
CommandSpec == Parsed /\ [][CmdList]_vars

\* The program run as `list --cwd <pattern>`.
CwdCommandSpec == ParsedCwd /\ [][CmdList]_vars

SortCommandSpec == ParsedSort /\ [][CmdList]_vars

CmdKillNext == CmdKill \/ ConfirmKillAnswer \/ CmdKillReport

\* The program run with the kill subcommand.
KillCommandSpec == ParsedKill /\ [][CmdKillNext]_vars

\* main: the program starts as the session or as a command.
\* Python calling into the module.
LibrarySpec == PyLoaded /\ [][KillProcessPy]_vars

ProgramInit == Init \/ Parsed \/ ParsedGroups \/ ParsedKill \/ ParsedMemory

ProgramNext == Next \/ CmdList \/ CmdGroups \/ CmdKillNext \/ CmdMemory

\* The program, run either way.
ProgramSpec == ProgramInit /\ [][ProgramNext]_vars

(***************************************************************************)
(* Properties of the session                                               *)
(***************************************************************************)
\* The labels of the arms of the confirm branch that act on the confirmation.
ConfirmActingArms == {"yes", "no", "toggle", "enter"}

\* A step in which handle_key ran while a confirmation was pending.
PendingKeyStep == confirm_screen # <<>> /\ pc = "poll" /\ pc' = "auto" /\ event' # ""

\* The pids of a confirm screen's targets, in order.
TargetPids(cs) == [i \in 1..Len(cs.processes) |-> cs.processes[i].pid]

\* C1: in every reachable state every selected position is a valid index into
\* the displayed list, also when the list is empty.
C1_SelectedPositionsValid ==
    \A i \in 1..Len(selected) :
        0 <= selected[i] /\ selected[i] < Len(filtered_processes)

\* C2: in every reachable state the cursor is a valid index into a non-empty
\* displayed list and is absent when the list is empty.
C2_CursorValidOrAbsent ==
    IF filtered_processes # <<>>
    THEN table_state # <<>> /\ 0 <= table_state[1]
         /\ table_state[1] < Len(filtered_processes)
    ELSE table_state = <<>>

\* C3: immediately after any refresh (manual 'r', automatic, or after a kill)
\* every selected position is below the length of the new displayed list; the
\* positions at or above it are gone and the positions below it are kept (the
\* kill clears the selection before it refreshes).
C3_RefreshDropsInvalidSelections ==
    [][ /\ (event' \in {"r", "tick"} \/ sent' # <<>>) =>
             \A i \in 1..Len(selected') : selected'[i] < Len(filtered_processes')
        /\ event' \in {"r", "tick"} =>
             selected' = SelectSeq(selected, LAMBDA p : p < Len(filtered_processes'))
        /\ sent' # <<>> => selected' = <<>>
      ]_vars

\* C3 witness: a manual or automatic refresh has just removed a selected
\* position and kept another.
C3_Witness ==
    /\ event \in {"r", "tick"}
    /\ dropped > 0
    /\ selected # <<>>

\* C4: at most one confirmation is active and no second kill batch can become
\* pending: while a confirmation is pending, 'k' and 'K' run no kill arm, and
\* no step replaces the targets or the force flag of the pending confirmation.
C4_NoSecondConfirmation ==
    [][ /\ ConfirmArm("k") = "ignored" /\ ConfirmArm("K") = "ignored"
        /\ PendingKeyStep =>
             /\ event' \notin {"k", "K"}
             /\ event' = "ignored" => confirm_screen' = confirm_screen
        /\ (confirm_screen # <<>> /\ confirm_screen' # <<>>) =>
             /\ confirm_screen'[1].processes = confirm_screen[1].processes
             /\ confirm_screen'[1].force = confirm_screen[1].force
      ]_vars

\* C4 witness: a key was ignored while a confirmation was pending and a
\* selection existed that a kill key would have turned into a new batch.
C4_Witness ==
    /\ confirm_screen # <<>>
    /\ event = "ignored"
    /\ KillTargets(selected, filtered_processes) # <<>>
    /\ KillTargets(selected, filtered_processes) # confirm_screen[1].processes

\* C5: while a confirmation is pending every key other than y/Y, n/N, Esc,
\* Enter, Left, Right and Tab is suppressed: it changes neither the view, the
\* sort key and direction, the cwd filter, the cursor, the selection, the
\* snapshot, the displayed list, the quit flag nor the confirmation.
C5_OtherKeysSuppressed ==
    [][ /\ \A k \in Keys \ ConfirmKeys : ConfirmArm(k) = "ignored"
        /\ (PendingKeyStep /\ event' \notin ConfirmActingArms) =>
             /\ event' = "ignored"
             /\ UNCHANGED <<view, sort_key, sort_reverse, cwd_filter, table_state,
                            selected, processes, filtered_processes, should_quit,
                            confirm_screen>>
      ]_vars

\* C5 witness: a key was suppressed while a confirmation was pending.
C5_Witness ==
    /\ confirm_screen # <<>>
    /\ event = "ignored"
    /\ pc = "auto"
    /\ ~should_quit

\* C6: the session sends a signal only in a step that starts with a pending
\* confirmation and runs its 'y'/'Y' arm, or its Enter arm with choice Yes.
C6_KillOnlyWhenConfirmed ==
    [][ sent' # <<>> =>
          /\ confirm_screen # <<>>
          /\ pc = "poll"
          /\ \/ event' = "yes"
             \/ event' = "enter" /\ confirm_screen[1].selected
      ]_vars

\* C6 witness: the 'y' arm has just sent signals.
C6_Witness ==
    /\ event = "yes"
    /\ sent # <<>>

\* C7: every step from no confirmation to a pending one is the 'k' or the 'K'
\* arm and starts with choice No; force is false for 'k' and true for 'K'.
C7_PendingStartsAtNo ==
    [][ (confirm_screen = <<>> /\ confirm_screen' # <<>>) =>
          /\ event' \in {"k", "K"}
          /\ confirm_screen'[1].selected = FALSE
          /\ confirm_screen'[1].force = (event' = "K")
      ]_vars

\* C7 witness: 'K' has just opened a forced confirmation.
C7_Witness ==
    /\ event = "K"
    /\ confirm_screen # <<>>
    /\ confirm_screen[1].force

\* C8: while a confirmation is pending, Enter sends the kill batch if and only
\* if the choice is Yes; with choice No it sends nothing.
C8_EnterKillsIffYes ==
    [][ /\ ConfirmArm("Enter") = "enter"
        /\ (PendingKeyStep /\ event' = "enter") =>
             IF confirm_screen[1].selected
             THEN /\ sent' # <<>>
                  /\ sent' = kill_processes(TargetPids(confirm_screen[1]),
                                            confirm_screen[1].force)
             ELSE sent' = <<>>
      ]_vars

\* C8 witness: Enter has just sent a batch of two signals.
C8_Witness ==
    /\ event = "enter"
    /\ Len(sent) = 2

\* C9: while a confirmation is pending, 'y'/'Y' sends the kill batch at once
\* whatever the choice was, and 'n'/'N' sends nothing and ends the confirmation.
C9_YesKillsNoCancels ==
    [][ /\ ConfirmArm("y") = "yes" /\ ConfirmArm("Y") = "yes"
        /\ ConfirmArm("n") = "no" /\ ConfirmArm("N") = "no"
        /\ (PendingKeyStep /\ event' = "yes") =>
             /\ sent' # <<>>
             /\ sent' = kill_processes(TargetPids(confirm_screen[1]),
                                       confirm_screen[1].force)
        /\ (PendingKeyStep /\ event' = "no") =>
             /\ sent' = <<>>
             /\ confirm_screen' = <<>>
      ]_vars

\* C9 witness: 'y' has just sent a forced batch.
C9_Witness ==
    /\ event = "yes"
    /\ sent # <<>>
    /\ sent[1].signal = "SIGKILL"

\* C10: from a pending confirmation, a cancel (n/N, Esc, Enter with No) and an
\* execution (y/Y, Enter with Yes) end with no confirmation; Left, Right and
\* Tab keep it pending with the choice flipped; every other key keeps it as is.
C10_CancelOrExecuteEndsPending ==
    [][ /\ \A k \in ConfirmToggleKeys : ConfirmArm(k) = "toggle"
        /\ \A k \in ConfirmNoKeys : ConfirmArm(k) = "no"
        /\ PendingKeyStep =>
             CASE event' \in {"yes", "no", "enter"} -> confirm_screen' = <<>>
               [] event' = "toggle" ->
                    /\ confirm_screen' # <<>>
                    /\ confirm_screen'[1].selected = ~confirm_screen[1].selected
                    /\ confirm_screen'[1].processes = confirm_screen[1].processes
                    /\ confirm_screen'[1].force = confirm_screen[1].force
               [] OTHER -> confirm_screen' = confirm_screen
      ]_vars

\* C10 witness: a toggle has just moved the choice of a pending confirmation to Yes.
C10_Witness ==
    /\ event = "toggle"
    /\ confirm_screen # <<>>
    /\ confirm_screen[1].selected

\* A step in which a confirmed kill is executed: 'y'/'Y', or Enter with Yes.
KillExecutedStep ==
    /\ confirm_screen # <<>>
    /\ pc = "poll"
    /\ \/ event' = "yes"
       \/ event' = "enter" /\ confirm_screen[1].selected

\* A step that refreshes: the 'r' key, the automatic refresh, or a kill.
RefreshStep == event' \in {"r", "tick"} \/ sent' # <<>>

\* C11: 'k' or 'K' with an empty selection opens no confirmation; a step that
\* opens one starts from a non-empty selection, and its targets are non-empty
\* and are exactly the displayed processes at the selected positions, in the
\* order of the selection.
C11_ConfirmTargetsAreSelectedRows ==
    [][ /\ (pc = "poll" /\ event' \in {"k", "K"} /\ selected = <<>>) =>
             confirm_screen' = <<>>
        /\ (confirm_screen = <<>> /\ confirm_screen' # <<>>) =>
             /\ selected # <<>>
             /\ confirm_screen'[1].processes # <<>>
             /\ Len(confirm_screen'[1].processes) = Len(selected)
             /\ \A i \in 1..Len(selected) :
                  /\ selected[i] < Len(filtered_processes)
                  /\ confirm_screen'[1].processes[i] =
                         filtered_processes[selected[i] + 1]
      ]_vars

\* C11 witness: 'k' has just opened a graceful confirmation for two selected rows.
C11_Witness ==
    /\ event = "k"
    /\ confirm_screen # <<>>
    /\ Len(confirm_screen[1].processes) = 2
    /\ Len(selected) = 2
    /\ ~confirm_screen[1].force

\* C12: the step that executes a confirmed kill ends with an empty selection,
\* a snapshot newly taken under the active sort key, the displayed list
\* recomputed from it and the refresh timer reset, whatever each send answered.
C12_KillClearsSelectionAndRefreshes ==
    [][ KillExecutedStep =>
          /\ sent' # <<>>
          /\ kill_results' \in KillOutcomes(Len(sent'))
          /\ selected' = <<>>
          /\ processes' \in Snapshots(SortKeyAsStr(sort_key), APP_MIN_MEMORY_MB)
          /\ filtered_processes' =
                 apply_filters(processes', view, cwd_filter, sort_key, sort_reverse)
          /\ refresh_due' = FALSE
      ]_vars

\* C12 witness: a kill whose first send failed and whose second succeeded has
\* just cleared the selection and refreshed.
C12_Witness ==
    /\ event \in {"yes", "enter"}
    /\ Len(sent) = 2
    /\ kill_results = <<FALSE, TRUE>>
    /\ selected = <<>>
    /\ ~refresh_due

\* C13: in every state of the session the displayed list is the snapshot cut
\* down by the active view, then by the cwd filter if one is set, then sorted
\* by the active key and direction; every displayed process is in the snapshot.
C13_DisplayedIsFilteredSortedSnapshot ==
    LET InView(p) == CASE view = "All" -> TRUE
                       [] view = "Orphans" -> p.ppid = 1
                       [] view = "Killable" ->
                            p.ppid = 1 /\ ~p.in_tmux /\ ~is_system_service(p)
                       [] view = "HighMemory" -> p.rss_mb > 500
        viewed == SelectSeq(processes, InView)
        in_cwd == IF cwd_filter = <<>> THEN viewed
                  ELSE filter_by_cwd(viewed, cwd_filter[1])
    IN  /\ filtered_processes =
               sort_processes(in_cwd, SortKeyAsStr(sort_key), sort_reverse)
        /\ \A i \in 1..Len(filtered_processes) :
               \E j \in 1..Len(processes) : filtered_processes[i] = processes[j]

\* C13 witness: the displayed list is a proper part of the snapshot under a
\* view, a cwd filter and a sort key that all differ from the initial ones.
C13_Witness ==
    /\ view = "Orphans"
    /\ cwd_filter # <<>>
    /\ sort_key = "Name"
    /\ filtered_processes # <<>>
    /\ Len(filtered_processes) < Len(processes)

\* C14: a view switch leaves the sort key, the direction and the cwd filter
\* alone; a sort key or direction change leaves the view and the cwd filter
\* alone; setting or clearing the cwd filter leaves the view, the sort key and
\* the direction alone; a refresh leaves all four alone.
C14_ViewSortCwdOrthogonal ==
    [][ /\ event' \in {"o", "O", "a", "m"} =>
             UNCHANGED <<sort_key, sort_reverse, cwd_filter>>
        /\ event' \in {"1", "2", "3", "4", "5", "!"} => UNCHANGED <<view, cwd_filter>>
        /\ event' \in {"w", "W"} => UNCHANGED <<view, sort_key, sort_reverse>>
        /\ RefreshStep => UNCHANGED <<view, sort_key, sort_reverse, cwd_filter>>
      ]_vars

\* C14 witness: a view switch has just kept a cwd filter and a sort setting
\* that differ from the initial ones.
C14_Witness ==
    /\ event = "o"
    /\ view = "Orphans"
    /\ cwd_filter # <<>>
    /\ sort_key = "Name"
    /\ sort_reverse

\* The field a numeric sort key names.
NumericField(p, sort_by) ==
    CASE sort_by = "memory" -> p.rss_mb
      [] sort_by = "cpu" -> p.cpu_percent
      [] sort_by = "pid" -> p.pid

\* The field a textual sort key names.
TextField(p, sort_by) ==
    CASE sort_by = "name" -> p.name
      [] sort_by = "cwd" -> p.cwd

\* list is in descending order of a numeric key when reverse is false and in
\* ascending order when it is true.
NumericOrdered(list, sort_by, reverse) ==
    \A i \in 1..(Len(list) - 1) :
        IF reverse
        THEN NumericField(list[i], sort_by) <= NumericField(list[i + 1], sort_by)
        ELSE NumericField(list[i], sort_by) >= NumericField(list[i + 1], sort_by)

\* list is in ascending order of a textual key when reverse is false and in
\* descending order when it is true.
TextOrdered(list, sort_by, reverse) ==
    \A i \in 1..(Len(list) - 1) :
        IF reverse
        THEN CmpStr(TextField(list[i], sort_by), TextField(list[i + 1], sort_by)) >= 0
        ELSE CmpStr(TextField(list[i], sort_by), TextField(list[i + 1], sort_by)) <= 0

\* C15: every list sort_processes has ordered by memory, cpu or pid (the
\* session's displayed list, sorted under sort_reverse) is in descending order
\* of that field when reverse is false and in ascending order when reverse is
\* true.
C15_NumericKeysDescendingUnlessReversed ==
    sort_key \in {"Memory", "Cpu", "Pid"} =>
        NumericOrdered(filtered_processes, SortKeyAsStr(sort_key), sort_reverse)

\* C16: every list sort_processes has ordered by name or cwd (the session's
\* displayed list, sorted under sort_reverse) is in ascending order of that
\* field when reverse is false and in descending order when reverse is true.
C16_TextKeysAscendingUnlessReversed ==
    sort_key \in {"Name", "Cwd"} =>
        TextOrdered(filtered_processes, SortKeyAsStr(sort_key), sort_reverse)

\* C16 witness: the session displays two processes by cwd with reverse = true,
\* the greater cwd first.
C16_Witness ==
    /\ sort_key = "Cwd"
    /\ sort_reverse
    /\ Len(filtered_processes) = 2
    /\ CmpStr(filtered_processes[1].cwd, filtered_processes[2].cwd) > 0

\* Whether p is an element of the list s.
InList(p, s) == \E i \in 1..Len(s) : s[i] = p

\* A command has run to its end.
CommandDone == cli # <<>> /\ pc = "exit"

\* What a finished command listed, cut down by --cwd if given: the list its
\* preset filter was applied to.
CommandBase ==
    IF cli[1].args.cwd = <<>> THEN cli[1].listed
    ELSE filter_by_cwd(cli[1].listed, cli[1].args.cwd[1])

\* The presets the arguments a request, by flag or by name.
RequestedPresets(a) ==
    {preset \in {"killable", "orphans", "high-memory", "stale"} :
        \/ a.filter = <<preset>>
        \/ preset = "killable" /\ a.killable
        \/ preset = "orphans" /\ a.orphans
        \/ preset = "high-memory" /\ a.high_memory}

\* The fixed priority of the presets, highest first.
PresetPriority == <<"killable", "orphans", "high-memory", "stale">>

\* The requested preset of highest priority, "none" if none is requested.
ChosenPreset(a) ==
    IF RequestedPresets(a) = {} THEN "none"
    ELSE PresetPriority[CHOOSE i \in 1..Len(PresetPriority) :
             /\ PresetPriority[i] \in RequestedPresets(a)
             /\ \A j \in 1..(i - 1) : PresetPriority[j] \notin RequestedPresets(a)]

\* Whether a preset keeps the process p.
PresetKeeps(preset, p, threshold) ==
    CASE preset = "killable" -> p.ppid = 1 /\ ~p.in_tmux /\ ~is_system_service(p)
      [] preset = "orphans" -> p.ppid = 1
      [] preset = "high-memory" -> p.rss_mb > threshold
      [] preset = "stale" -> p.exe_deleted
      [] preset = "none" -> TRUE

\* C17: what a command finds is its list (after --cwd) cut down by exactly one
\* preset, the requested one of highest priority in Killable > Orphans >
\* HighMemory > Stale, and by none when none is requested.
C17_OnlyHighestPriorityPresetApplied ==
    CommandDone =>
        LET a == cli[1].args
        IN  cli[1].found =
                SelectSeq(CommandBase,
                          LAMBDA p : PresetKeeps(ChosenPreset(a), p,
                                                 a.high_memory_threshold))

\* C17 witness: killable and orphans were both requested by flag, and an
\* orphan that the orphans filter would keep is not among the processes found.
C17_Witness ==
    /\ CommandDone
    /\ cli[1].args.killable
    /\ cli[1].args.orphans
    /\ cli[1].found # <<>>
    /\ \E i \in 1..Len(CommandBase) :
           CommandBase[i].ppid = 1 /\ ~InList(CommandBase[i], cli[1].found)

\* C18: the killable filter, applied by a command to its list, returns exactly
\* the processes that are orphans (parent id 1), outside any multiplexer and no
\* system service, in the order of the input; an orphan inside a multiplexer
\* is never in it.
C18_KillableIsOrphanOutsideMultiplexerNotService ==
    (CommandDone /\ ChosenPreset(cli[1].args) = "killable") =>
         /\ \A i \in 1..Len(cli[1].found) :
                /\ cli[1].found[i].ppid = 1
                /\ ~cli[1].found[i].in_tmux
                /\ ~is_system_service(cli[1].found[i])
         /\ \A i \in 1..Len(CommandBase) :
                (/\ CommandBase[i].ppid = 1
                 /\ ~CommandBase[i].in_tmux
                 /\ ~is_system_service(CommandBase[i])) =>
                    InList(CommandBase[i], cli[1].found)
         /\ cli[1].found =
                SelectSeq(CommandBase, LAMBDA p : InList(p, cli[1].found))

\* C18 witness: the killable preset, requested by name alone, has kept an
\* orphan and dropped an orphan that runs inside a multiplexer.
C18_Witness ==
    /\ CommandDone
    /\ cli[1].args.filter = <<"killable">>
    /\ ~cli[1].args.killable
    /\ cli[1].found # <<>>
    /\ \E i \in 1..Len(CommandBase) :
           /\ CommandBase[i].ppid = 1
           /\ CommandBase[i].in_tmux
           /\ ~InList(CommandBase[i], cli[1].found)

\* The command line starts with one of the system path prefixes.
HasSystemPathPrefix(cmdline) ==
    \E i \in 1..Len(SYSTEM_EXE_PATHS) :
        /\ Len(SYSTEM_EXE_PATHS[i]) <= Len(cmdline)
        /\ \A j \in 1..Len(SYSTEM_EXE_PATHS[i]) : cmdline[j] = SYSTEM_EXE_PATHS[i][j]

\* The name equals one of the critical service names, letter case aside.
IsCriticalName(name) ==
    \E i \in 1..Len(CRITICAL_SERVICES) :
        /\ Len(name) = Len(CRITICAL_SERVICES[i])
        /\ \A j \in 1..Len(name) :
               LowerChar(name[j]) = LowerChar(CRITICAL_SERVICES[i][j])

\* C19: an orphan outside any multiplexer passes the killable filter (which
\* drops what is_system_service accepts) if and only if neither its command
\* line starts with a system path prefix nor its name equals a critical
\* service name, letter case aside; each of the two alone makes it a system
\* service, and a name that merely starts with a critical name does not.
C19_SystemServiceByPathPrefixOrExactName ==
    (CommandDone /\ ChosenPreset(cli[1].args) = "killable") =>
        \A i \in 1..Len(CommandBase) :
            LET p == CommandBase[i]
            IN  (p.ppid = 1 /\ ~p.in_tmux) =>
                    /\ InList(p, cli[1].found) <=>
                           ~(HasSystemPathPrefix(p.cmdline) \/ IsCriticalName(p.name))
                    /\ is_system_service(p) <=>
                           (HasSystemPathPrefix(p.cmdline) \/ IsCriticalName(p.name))

\* C19 witness: the killable filter has dropped a service known by its path
\* alone and one known by its name alone, and kept a process whose name starts
\* with a critical name.
C19_Witness ==
    /\ CommandDone
    /\ ChosenPreset(cli[1].args) = "killable"
    /\ \E i \in 1..Len(CommandBase) :
           /\ HasSystemPathPrefix(CommandBase[i].cmdline)
           /\ ~IsCriticalName(CommandBase[i].name)
           /\ ~InList(CommandBase[i], cli[1].found)
    /\ \E i \in 1..Len(CommandBase) :
           /\ ~HasSystemPathPrefix(CommandBase[i].cmdline)
           /\ IsCriticalName(CommandBase[i].name)
           /\ ~InList(CommandBase[i], cli[1].found)
    /\ \E i \in 1..Len(cli[1].found) :
           \E j \in 1..Len(CRITICAL_SERVICES) :
               /\ Len(cli[1].found[i].name) > Len(CRITICAL_SERVICES[j])
               /\ StartsWith(cli[1].found[i].name, CRITICAL_SERVICES[j])

\* C20: where the high-memory filter is applied, a process is kept if and only
\* if its memory is strictly greater than the threshold, in the order of the
\* input, so a process at the threshold is dropped; the threshold is the
\* caller's for a command and 500 for the session's HighMemory view.
C20_HighMemoryStrictlyAboveThreshold ==
    /\ (CommandDone /\ cli[1].command = "list"
           /\ ChosenPreset(cli[1].args) = "high-memory") =>
         /\ \A i \in 1..Len(CommandBase) :
                InList(CommandBase[i], cli[1].found) <=>
                    CommandBase[i].rss_mb > cli[1].args.high_memory_threshold
         /\ cli[1].found =
                SelectSeq(CommandBase, LAMBDA p : InList(p, cli[1].found))
    /\ (cli = <<>> /\ view = "HighMemory") =>
         /\ \A i \in 1..Len(filtered_processes) : filtered_processes[i].rss_mb > 500
         /\ cwd_filter = <<>> =>
                \A i \in 1..Len(processes) :
                    processes[i].rss_mb > 500 => InList(processes[i], filtered_processes)

\* C20 witness: with threshold 500 the filter has kept a process of 600 MB and
\* dropped one of exactly 500 MB.
C20_Witness ==
    /\ CommandDone
    /\ cli[1].command = "list"
    /\ ChosenPreset(cli[1].args) = "high-memory"
    /\ cli[1].args.high_memory_threshold = 500
    /\ \E i \in 1..Len(cli[1].found) : cli[1].found[i].rss_mb = 600
    /\ \E i \in 1..Len(CommandBase) :
           /\ CommandBase[i].rss_mb = 500
           /\ ~InList(CommandBase[i], cli[1].found)

(***************************************************************************)
(* Properties of the session: kill batches, failures, quit, refresh        *)
(***************************************************************************)
\* C22: a step of the session that sends signals sends exactly one to each
\* target of the pending confirmation, in order and to no pid twice, whatever
\* the sends answered, all of one kind: SIGKILL if the confirmation's force flag
\* is set, SIGTERM if not; that flag is set by the key that opened the
\* confirmation ('K' forced, 'k' graceful) and stays as it is while pending.
C22_OneSendPerTargetSameSignal ==
    [][ /\ sent' # <<>> =>
            /\ KillExecutedStep
            /\ Len(sent') = Len(confirm_screen[1].processes)
            /\ Len(kill_results') = Len(sent')
            /\ \A i \in 1..Len(sent') :
                   /\ sent'[i].pid = confirm_screen[1].processes[i].pid
                   /\ sent'[i].signal =
                          IF confirm_screen[1].force THEN "SIGKILL" ELSE "SIGTERM"
                   /\ \A j \in 1..Len(sent') : sent'[j].pid = sent'[i].pid => j = i
        /\ (confirm_screen = <<>> /\ confirm_screen' # <<>>) =>
            /\ event' \in {"k", "K"}
            /\ confirm_screen'[1].force = (event' = "K")
        /\ (confirm_screen # <<>> /\ confirm_screen' # <<>>) =>
            confirm_screen'[1].force = confirm_screen[1].force
      ]_vars

\* Enter with Yes has just sent a forced batch of two: both were sent SIGKILL,
\* the second after the first had failed.
C22_Witness ==
    /\ event = "enter"
    /\ Len(sent) = 2
    /\ sent[1].signal = "SIGKILL"
    /\ sent[2].signal = "SIGKILL"
    /\ sent[1].pid # sent[2].pid
    /\ kill_results = <<FALSE, TRUE>>

\* C24: once 'q' has set the quit flag, no step refreshes, sends a signal or
\* dispatches a key, and no step changes the snapshot, the displayed list, the
\* selection, the cursor, the view, the sort, the cwd filter, the confirmation,
\* the quit flag or the time of the last refresh.
C24_QuitIsTerminal ==
    [][ should_quit =>
            /\ ~RefreshStep
            /\ pc # "poll"
            /\ UNCHANGED <<processes, filtered_processes, selected, table_state,
                           view, sort_key, sort_reverse, cwd_filter, confirm_screen,
                           should_quit, refresh_due>>
      ]_vars

\* The iteration whose end is reached handled no key: its wait timed out, or
\* it read an event that is no key press.
IdleIteration == pc = "auto" /\ event = ""

\* C25 as stated: an iteration ends with an automatic refresh exactly when it
\* handled no key and the refresh interval has elapsed.
C25_AutoRefreshOnlyOnIdleIterations ==
    [][ pc = "auto" => ((event' = "tick") <=> (IdleIteration /\ refresh_due)) ]_vars

\* C25, amended: the automatic refresh is tested at the end of every iteration,
\* whether it handled a key or not, and nowhere else: an iteration ends with an
\* automatic refresh exactly when more than the refresh interval has passed
\* since the last refresh, and that refresh restarts the interval.
C25_AutoRefreshCheckedEveryIteration ==
    [][ /\ pc = "auto" => ((event' = "tick") <=> refresh_due)
        /\ event' = "tick" => (pc = "auto" /\ ~refresh_due')
      ]_vars

\* The iteration that handled 'q' has ended with an automatic refresh.
C25_Witness ==
    /\ event = "tick"
    /\ should_quit
    /\ pc = "done"
    /\ ~refresh_due

\* What C27 says of the state App::new builds.
InitialSessionState ==
    /\ processes \in Snapshots("memory", APP_MIN_MEMORY_MB)
    /\ view = "All"
    /\ cwd_filter = <<>>
    /\ sort_key = "Memory"
    /\ \A i, j \in 1..Len(filtered_processes) :
           i < j => filtered_processes[i].rss_mb >= filtered_processes[j].rss_mb
    /\ filtered_processes =
           apply_filters(processes, "All", <<>>, "Memory", sort_reverse)
    /\ selected = <<>>
    /\ confirm_screen = <<>>
    /\ ~should_quit
    /\ ~refresh_due
    /\ filtered_processes # <<>> => table_state = <<0>>

\* C27: the session starts with a snapshot just taken, the view All, no cwd
\* filter, the sort key memory with the displayed list in descending order of
\* memory and equal to the snapshot filtered and sorted, nothing selected, no
\* confirmation, the quit flag unset, and the cursor on row 0 if there is one;
\* the snapshot holds no process below the minimum memory, then and later.
C27_InitialSessionState ==
    /\ InitialSessionState
    /\ [](\A i \in 1..Len(processes) : processes[i].rss_mb >= APP_MIN_MEMORY_MB)

\* The session has started with two processes displayed, the larger first,
\* and the cursor on row 0.
C27_Witness ==
    /\ pc = "draw"
    /\ event = ""
    /\ view = "All"
    /\ sort_key = "Memory"
    /\ sort_reverse
    /\ Len(filtered_processes) = 2
    /\ filtered_processes[1].rss_mb > filtered_processes[2].rss_mb
    /\ filtered_processes = processes
    /\ table_state = <<0>>
    /\ selected = <<>>
    /\ confirm_screen = <<>>
    /\ ~should_quit

\* The positions a selection holds.
SelectionSet(sel) == {sel[i] : i \in 1..Len(sel)}

\* C28: no position occurs twice in the selection, and toggling twice at the
\* cursor gives back the positions selected; the toggle key adds the cursor
\* position if it is not selected and removes it if it is, and changes no other
\* position (nothing at all without a cursor); the select-all key selects
\* exactly the positions 0 .. len-1 of the displayed list; the clear key leaves
\* nothing selected.
C28_SelectionIsSetOfPositions ==
    /\ [](/\ \A i, j \in 1..Len(selected) : selected[i] = selected[j] => i = j
          /\ SelectionSet(ToggleCurrentSelection(
                  ToggleCurrentSelection(selected, table_state), table_state))
                 = SelectionSet(selected))
    /\ [][ /\ (pc = "poll" /\ event' = " " /\ table_state # <<>>) =>
               SelectionSet(selected') =
                   IF table_state[1] \in SelectionSet(selected)
                   THEN SelectionSet(selected) \ {table_state[1]}
                   ELSE SelectionSet(selected) \cup {table_state[1]}
           /\ (pc = "poll" /\ event' = " " /\ table_state = <<>>) =>
               selected' = selected
           /\ (pc = "poll" /\ event' = "s") =>
               /\ SelectionSet(selected') = 0..(Len(filtered_processes) - 1)
               /\ Len(selected') = Len(filtered_processes)
           /\ (pc = "poll" /\ event' = "c") => selected' = <<>>
         ]_vars

\* With rows 0 and 1 selected, the toggle key at row 0 has removed row 0 and
\* left row 1 selected.
C28_Witness ==
    /\ event = " "
    /\ table_state = <<0>>
    /\ selected = <<1>>
    /\ Len(filtered_processes) = 2

\* A step that sets the sort key or flips the sort direction.
SortStep == pc = "poll" /\ event' \in {"1", "2", "3", "4", "5", "!"}

\* A manual or automatic refresh after which the displayed list is no shorter.
RefreshWithoutShrinkStep ==
    /\ event' \in {"r", "tick"}
    /\ Len(filtered_processes') >= Len(filtered_processes)

\* C29: a sort key change, a direction toggle and a refresh that does not
\* shrink the displayed list leave the selected positions as they are, whatever
\* processes come to stand at them; a confirmation that opens targets the
\* processes standing at the selected positions when it opens.
C29_SelectionKeyedByPosition ==
    [][ /\ SortStep => selected' = selected
        /\ RefreshWithoutShrinkStep => selected' = selected
        /\ (confirm_screen = <<>> /\ confirm_screen' # <<>>) =>
               TargetPids(confirm_screen'[1]) =
                   [i \in 1..Len(selected) |-> filtered_processes[selected[i] + 1].pid]
      ]_vars

(***************************************************************************)
(* Properties of the kill command                                          *)
(***************************************************************************)
\* cmd_kill has sent its batch and printed its report.
KillReported == cli # <<>> /\ cli[1].command = "kill" /\ cli[1].out = "Killed"

\* C21: the kill executor returns one outcome per id it is given, in the order
\* given and carrying that id; every id is sent its signal whatever the sends
\* before it answered; an outcome is successful exactly when its send was
\* answered Ok, not found and permission denied are told apart, and the count
\* cmd_kill reports is the number of successful outcomes.
C21_OneOutcomePerIdAndSuccessCount ==
    KillReported =>
        LET c == cli[1]
            n == Len(c.targets)
        IN  /\ Len(c.results) = n
            /\ Len(sent) = n
            /\ \A i \in 1..n :
                   /\ c.results[i].pid = c.targets[i].pid
                   /\ sent[i].pid = c.targets[i].pid
                   /\ c.results[i].success = (c.errnos[i] = "OK")
                   /\ c.errnos[i] = "ESRCH" => c.results[i].message = "Process not found"
                   /\ c.errnos[i] = "EPERM" => c.results[i].message = "Permission denied"
            /\ c.success_count = Cardinality({i \in 1..n : c.results[i].success})

\* A batch of two whose first send found no process and whose second succeeded:
\* both were sent, and one success is reported.
C21_Witness ==
    /\ KillReported
    /\ pc = "exit"
    /\ Len(cli[1].results) = 2
    /\ cli[1].results[1].message = "Process not found"
    /\ cli[1].results[2].success
    /\ cli[1].success_count = 1

(***************************************************************************)
(* Properties of the working-directory filter                              *)
(***************************************************************************)
\* The pattern holds a wildcard.
HasWildcard(pat) == ContainsChar(pat, "*") \/ ContainsChar(pat, "?")

\* A pattern without character classes is a malformed glob when it holds three
\* asterisks in a row, or two that are not a whole path component.
MalformedGlob(pat) ==
    \E i \in 1..(Len(pat) - 1) :
        /\ pat[i] = "*"
        /\ pat[i + 1] = "*"
        /\ \/ (i + 2 <= Len(pat) /\ pat[i + 2] = "*")
           \/ (i > 1 /\ pat[i - 1] \notin {"/", "*"})
           \/ (i + 2 <= Len(pat) /\ pat[i + 2] # "/")

RECURSIVE GlobMatches(_, _)
\* Glob matching of a whole text by a pattern of literals, '?' (any one
\* character) and single '*' (any characters, none included).
GlobMatches(text, pat) ==
    IF pat = <<>> THEN text = <<>>
    ELSE IF Head(pat) = "*"
         THEN \E n \in 0..Len(text) :
                  GlobMatches(SubSeq(text, n + 1, Len(text)), Tail(pat))
    ELSE /\ text # <<>>
         /\ Head(pat) = "?" \/ Head(pat) = Head(text)
         /\ GlobMatches(Tail(text), Tail(pat))

\* C26: a list command given only --cwd finds, of the processes listed and in
\* their order, those whose working directory the pattern matches as a glob if
\* the pattern holds '*' or '?' and is a well-formed glob, and otherwise (no
\* wildcard, or a malformed glob) those whose normalized working directory
\* starts with the normalized pattern; the command ends in either case.
C26_CwdFilterGlobOrPrefix ==
    CommandDone =>
        LET pat == cli[1].args.cwd[1]
            glob == HasWildcard(pat) /\ ~MalformedGlob(pat)
        IN  cli[1].found =
                SelectSeq(cli[1].listed,
                    LAMBDA p : IF glob THEN GlobMatches(p.cwd, pat)
                               ELSE StartsWith(normalize_path(p.cwd),
                                               normalize_path(pat)))

\* A malformed glob, three asterisks, has found by prefix the process that
\* runs in the directory of that name, and not the one in /w/x.
C26_Witness ==
    /\ CommandDone
    /\ cli[1].args.cwd = << <<"/", "w", "/", "*", "*", "*">> >>
    /\ \E i \in 1..Len(cli[1].found) : cli[1].found[i].pid = 700
    /\ \E i \in 1..Len(cli[1].listed) : cli[1].listed[i].pid = 200
    /\ \A i \in 1..Len(cli[1].found) : cli[1].found[i].pid # 200

(***************************************************************************)
(* Properties of the classification                                        *)
(***************************************************************************)
\* The facts of the process with this pid.
FactOf(pid) == FactTable[CHOOSE i \in DOMAIN FactTable : FactTable[i].pid = pid]

\* C30: every process a finished list command has listed carries flags that
\* are false where the fact behind them is absent: no known parent, not an
\* orphan; unreadable environment, not in a multiplexer; unreadable executable
\* link, not stale. A flag is true exactly when its fact is there and says so:
\* parent pid 1, a variable TMUX=..., a link naming a deleted file.
C30_AbsentFactsGiveFalseFlags ==
    CommandDone =>
        \A i \in 1..Len(cli[1].listed) :
            LET p == cli[1].listed[i]
                f == FactOf(p.pid)
            IN  /\ f.parent = <<>> => ~p.is_orphan
                /\ f.environ = <<>> => ~p.in_tmux
                /\ f.exe = <<>> => ~p.exe_deleted
                /\ p.is_orphan <=> f.parent = <<1>>
                /\ p.in_tmux <=>
                       \E e \in SelectionSet(f.environ) : \E v \in SelectionSet(e) :
                           Len(v) >= 5 /\ SubSeq(v, 1, 5) = <<"T", "M", "U", "X", "=">>
                /\ p.exe_deleted <=>
                       \E l \in SelectionSet(f.exe) : \E k \in 1..Len(l) :
                           Len(l) >= k + 8 /\
                           SubSeq(l, k, k + 8) = <<"(", "d", "e", "l", "e", "t", "e", "d", ")">>

\* The snapshot of a finished command holds the process without a known
\* parent, not an orphan, the one whose environment and executable link cannot
\* be read, neither in tmux nor stale, and a process inside tmux.
C30_Witness ==
    /\ CommandDone
    /\ Len(cli[1].listed) = 3
    /\ \E i \in 1..3 :
           /\ FactOf(cli[1].listed[i].pid).parent = <<>>
           /\ cli[1].listed[i].ppid = 0
           /\ ~cli[1].listed[i].is_orphan
    /\ \E i \in 1..3 :
           /\ FactOf(cli[1].listed[i].pid).environ = <<>>
           /\ FactOf(cli[1].listed[i].pid).exe = <<>>
           /\ ~cli[1].listed[i].in_tmux
           /\ ~cli[1].listed[i].exe_deleted
    /\ \E i \in 1..3 : cli[1].listed[i].in_tmux

(***************************************************************************)
(* Properties of the list command: the order of the output                 *)
(***************************************************************************)
\* The direction parser.rs:40 documents for a list command: ascending when
\* --ascending is given, else descending for memory and cpu and ascending for
\* name and cwd.
DocumentedAscending(a) == a.ascending \/ a.sort \in {"name", "cwd"}

\* C31: the list a finished list command prints is ordered by the chosen sort
\* field, descending for memory and cpu and ascending for name and cwd by
\* default, and ascending for every field when --ascending is given.
C31_ListOrderedInDocumentedDirection ==
    (CommandDone /\ cli[1].command = "list"
        /\ (cli[1].args.sort \in {"memory", "cpu", "name", "cwd"} \/ cli[1].args.ascending)) =>
        LET a == cli[1].args
        IN  IF a.sort \in {"name", "cwd"}
            THEN TextOrdered(cli[1].printed, a.sort, ~DocumentedAscending(a))
            ELSE NumericOrdered(cli[1].printed, a.sort, DocumentedAscending(a))

(***************************************************************************)
(* Properties of the session: sort keys and the sort direction             *)
(***************************************************************************)
\* A step in which a digit key reaches App::set_sort.
SetSortStep == pc = "poll" /\ event' \in {"1", "2", "3", "4", "5"}

\* C32: pressing the sort key that is already active flips sort_reverse;
\* pressing another sort key makes it the active one, and the displayed list
\* is then in descending order for memory, cpu and pid and in ascending order
\* for name and cwd.
C32_SortKeyFlipsOrTakesDefaultDirection ==
    [][SetSortStep =>
          LET key == KeySortKey(event')
          IN  /\ sort_key' = key
              /\ key = sort_key => sort_reverse' = ~sort_reverse
              /\ key # sort_key =>
                     IF key \in {"Name", "Cwd"}
                     THEN TextOrdered(filtered_processes', SortKeyAsStr(key), FALSE)
                     ELSE NumericOrdered(filtered_processes', SortKeyAsStr(key), FALSE)]_vars

(***************************************************************************)
(* Properties of the session: the confirmation across refreshes            *)
(***************************************************************************)
\* The arms of App::handle_key that assign confirm_screen.
ConfirmWritingArms == {"k", "K", "yes", "no", "toggle", "enter"}

\* C33: the confirmation changes only in a step that handles a key; while it
\* stays pending its targets and force flag never change, and a refresh made
\* meanwhile leaves it as it is; the kill executed from it signals exactly the
\* process ids it holds, which are those captured when it was opened.
C33_ConfirmationUntouchedByRefresh ==
    [][/\ confirm_screen' # confirm_screen =>
              pc = "poll" /\ event' \in ConfirmWritingArms
       /\ (confirm_screen # <<>> /\ confirm_screen' # <<>>) =>
              /\ confirm_screen'[1].processes = confirm_screen[1].processes
              /\ confirm_screen'[1].force = confirm_screen[1].force
       /\ (confirm_screen # <<>> /\ event' = "tick") =>
              /\ processes' \in Snapshots(SortKeyAsStr(sort_key), APP_MIN_MEMORY_MB)
              /\ confirm_screen' = confirm_screen
       /\ KillExecutedStep =>
              sent' = [i \in 1..Len(confirm_screen[1].processes) |->
                          [pid |-> confirm_screen[1].processes[i].pid,
                           signal |-> IF confirm_screen[1].force THEN "SIGKILL"
                                      ELSE "SIGTERM"]]]_vars

\* C33 witness: a forced confirmation with the choice on Yes is pending right
\* after an automatic refresh that removed its target from the displayed list
\* and emptied the selection.
C33_Witness ==
    /\ event = "tick"
    /\ confirm_screen # <<>>
    /\ confirm_screen[1].force
    /\ confirm_screen[1].selected
    /\ \E i \in 1..Len(confirm_screen[1].processes) :
           ~InList(confirm_screen[1].processes[i], filtered_processes)
    /\ selected = <<>>

(***************************************************************************)
(* Properties of the session: the periodic refresh                         *)
(***************************************************************************)
\* C34: no iteration of the loop ends with a refresh overdue: when more than
\* the refresh interval has passed since the last refresh at the end of an
\* iteration, the iteration ends with a refresh, whatever key it handled and
\* whether a confirmation is pending or not; and every refresh, by 'r', by the
\* timer or after a kill, installs a whole new snapshot and restarts the
\* interval.
C34_RefreshNeverStarved ==
    [][/\ pc = "auto" => ~refresh_due'
       /\ (pc = "auto" /\ refresh_due) =>
              event' = "tick" /\ confirm_screen' = confirm_screen
       /\ RefreshStep =>
              /\ processes' \in Snapshots(SortKeyAsStr(sort_key'), APP_MIN_MEMORY_MB)
              /\ ~refresh_due']_vars

\* C34 witness: the loop goes on after an automatic refresh made while a
\* graceful confirmation is pending.
C34_Witness ==
    /\ event = "tick"
    /\ pc = "draw"
    /\ ~refresh_due
    /\ ~should_quit
    /\ confirm_screen # <<>>
    /\ ~confirm_screen[1].force

(***************************************************************************)
(* Properties of the session: the re-filter operations                     *)
(***************************************************************************)
\* The fields of App.
app == <<processes, filtered_processes, selected, table_state, view, sort_key,
         sort_reverse, cwd_filter, confirm_screen, should_quit, refresh_due>>

\* A step in which a view key or 'W' reaches set_view or clear_cwd_filter.
ViewOrClearCwdStep == pc = "poll" /\ event' \in {"o", "O", "a", "m", "W"}

\* A step in which 'w' reaches filter_by_current_cwd.
FilterCwdStep == pc = "poll" /\ event' = "w"

\* C35: a view switch, clearing the cwd filter, and setting the cwd filter
\* from the process under the cursor each leave the selection empty and the
\* cursor at position 0, whatever the new displayed list is; setting the cwd
\* filter changes no field of App when the cursor is on no displayed process.
C35_RefilterResetsSelectionAndCursor ==
    [][/\ ViewOrClearCwdStep => selected' = <<>> /\ table_state' = <<0>>
       /\ (FilterCwdStep /\ CursorOnRow) =>
              /\ selected' = <<>>
              /\ table_state' = <<0>>
              /\ cwd_filter' = <<filtered_processes[table_state[1] + 1].cwd>>
       /\ (FilterCwdStep /\ ~CursorOnRow) => UNCHANGED app]_vars

\* C35 witness: 'w' has set the cwd filter and every process of the snapshot
\* is still displayed; the selection is empty and the cursor on the first row.
C35_Witness ==
    /\ event = "w"
    /\ pc = "auto"
    /\ cwd_filter # <<>>
    /\ selected = <<>>
    /\ table_state = <<0>>
    /\ Len(filtered_processes) = Len(processes)
    /\ Len(filtered_processes) >= 1

(***************************************************************************)
(* Properties of the session: the sort label of the footer                 *)
(***************************************************************************)
\* App::render_footer: the marker shown after the name of the sort key.
SortLabel == IF sort_reverse THEN "descending" ELSE "ascending"

\* list is in the order dir of the field the sort key names.
OrderedAs(list, key, dir) ==
    IF key \in {"Name", "Cwd"}
    THEN TextOrdered(list, SortKeyAsStr(key), dir = "descending")
    ELSE NumericOrdered(list, SortKeyAsStr(key), dir = "ascending")

\* C36: in every state of the session the displayed list is in the order the
\* footer's sort marker shows: descending in the active sort key when
\* sort_reverse is true, ascending when it is false.
C36_SortLabelAgreesWithOrder ==
    OrderedAs(filtered_processes, sort_key, SortLabel)

(***************************************************************************)
(* Properties of the session: the cursor                                   *)
(***************************************************************************)
\* A step in which a movement key reaches its cursor function.
MoveStep ==
    pc = "poll" /\ event' \in {"Up", "Down", "PageUp", "PageDown", "Home", "End"}

\* C37: a refresh leaves a cursor that is still a valid position where it is
\* and moves any other cursor to the last row of a non-empty new list; a
\* movement key on a non-empty list leaves the cursor on one of its rows, Down
\* on the last row going to row 0, Up on row 0 to the last row, PageDown and
\* PageUp stopping at the last and the first row; on an empty list a movement
\* key changes nothing.
C37_CursorRestoredAndKeptInRange ==
    [][/\ (RefreshStep /\ table_state # <<>>) =>
              IF table_state[1] < Len(filtered_processes')
              THEN table_state' = table_state
              ELSE Len(filtered_processes') > 0 =>
                       table_state' = <<Len(filtered_processes') - 1>>
       /\ MoveStep =>
              LET len == Len(filtered_processes)
                  i == CursorOrZero(table_state)
                  k == event'
              IN  /\ len = 0 => UNCHANGED app
                  /\ len > 0 =>
                         /\ table_state' # <<>>
                         /\ table_state'[1] \in 0..(len - 1)
                         /\ (k = "Down" /\ table_state = <<len - 1>>) =>
                                table_state' = <<0>>
                         /\ (k = "Up" /\ table_state = <<0>>) =>
                                table_state' = <<len - 1>>
                         /\ (k = "PageDown" /\ i + PAGE_ROWS >= len - 1) =>
                                table_state' = <<len - 1>>
                         /\ (k = "PageUp" /\ i <= PAGE_ROWS) =>
                                table_state' = <<0>>]_vars

\* C37 witness: Up has taken the cursor from row 0 to the last of two rows.
C37_Witness ==
    /\ event = "Up"
    /\ pc = "auto"
    /\ Len(filtered_processes) = 2
    /\ table_state = <<1>>

(***************************************************************************)
(* Properties of the session: cancelling a confirmation                    *)
(***************************************************************************)
\* A step in which a key cancels the pending confirmation: 'n', 'N' or Esc, or
\* Enter with the choice on No.
CancelStep ==
    /\ pc = "poll"
    /\ confirm_screen # <<>>
    /\ \/ event' = "no"
       \/ event' = "enter" /\ ~confirm_screen[1].selected

\* C38: a key that cancels the pending confirmation sends no signal, closes
\* the confirmation, and leaves the selection, the cursor, the snapshot, the
\* displayed list, the view, the sort and the cwd filter as they were.
C38_CancelChangesOnlyConfirmation ==
    [][CancelStep =>
          /\ sent' = <<>>
          /\ confirm_screen' = <<>>
          /\ UNCHANGED <<selected, table_state, processes, filtered_processes, view,
                         sort_key, sort_reverse, cwd_filter, should_quit,
                         refresh_due>>]_vars

\* C38 witness: Enter has closed a confirmation without a signal, and the
\* selection it was opened for is still there.
C38_Witness ==
    /\ event = "enter"
    /\ pc = "auto"
    /\ sent = <<>>
    /\ confirm_screen = <<>>
    /\ selected # <<>>

(***************************************************************************)
(* Properties of the kill command: when it signals, and whom               *)
(***************************************************************************)
\* The line read is y or yes, whatever its case and the blanks around it.
IsYes(line) == ToLowercase(Trim(line)) \in {<<"y">>, <<"y", "e", "s">>}

\* The ids in the sequence of process ids or of signals s.
PidSet(s) == {s[i].pid : i \in 1..Len(s)}

\* C39: a finished kill command has sent no signal when it found no target,
\* when --preview was given, or when the line read at its prompt was not y or
\* yes; with targets and without --preview it has sent its signals without
\* prompting when --yes was given or standard input was no terminal; what it
\* has sent went to its targets only; and explicit ids make the targets the
\* processes of the table with those ids, whatever filters were given.
C39_KillCommandSignalsOnlyWhenAgreed ==
    (CommandDone /\ cli[1].command = "kill") =>
        LET c == cli[1]
            a == c.args
            asked == c.answer # <<>>
        IN  /\ (c.targets = <<>> \/ a.preview) => sent = <<>> /\ ~asked
            /\ (asked /\ ~IsYes(c.answer[1])) => sent = <<>>
            /\ (c.targets # <<>> /\ ~a.preview /\ (a.yes \/ ~c.tty)) =>
                   sent # <<>> /\ ~asked
            /\ sent # <<>> => PidSet(sent) = PidSet(c.targets)
            /\ a.pids # <<>> =>
                   PidSet(c.targets) = {a.pids[i] : i \in 1..Len(a.pids)} \cap c.present

\* C39 witness: a kill command given the ids 100 and 999 and the stale filter,
\* on a table that holds 100 (which is not stale) and not 999, was answered
\* " Yes" at its prompt and has signalled 100 alone.
C39_Witness ==
    /\ CommandDone
    /\ cli[1].command = "kill"
    /\ cli[1].args.pids = <<100, 999>>
    /\ cli[1].args.filter = <<"stale">>
    /\ cli[1].answer = << <<" ", "Y", "e", "s", "\n">> >>
    /\ Len(sent) = 1
    /\ sent[1].pid = 100

================================================================================
